---- MODULE Spec2Model ----
(***************************************************************************)
(* Prompt-execution subsystem of autoagent: the UI thread (submit, cancel, *)
(* poll/handle_event, clear_session), one worker thread per submitted      *)
(* prompt running prompt_codex, the stderr reader thread of each worker,   *)
(* the background kill threads started by cancel, and the child processes. *)
(* Every handler is a sequence of steps, one step per access to memory     *)
(* shared between threads (a lock, the atomic flag, the channel, a child   *)
(* process); the thread's program counter forces the steps of one handler  *)
(* to run in program order.                                                *)
(***************************************************************************)
EXTENDS Integers, Sequences, FiniteSets, TLC

\* Number of prompts the user submits in a run (next_prompt_id is capped).
MaxPrompts == 2
\* Length the visible text of an execution grows to.
MaxVisible == 1
\* Threads that call build_codex_command, once each.
MaxCallers == 2

None == 0
PromptIds == 1..MaxPrompts

VARIABLES
    \* ---- AutoAgentApp (UI thread only) ----
    busy, locked, next_prompt_id, active_prompt_id,
    output_base,   \* 0: output is empty before the reply area, 1: a prompt was rendered
    output,        \* the part of self.output from output_base on
    session_id,    \* 0: None, 1: Some(_)
    uiPc, uiArg,   \* position of the UI thread inside a handler, and its local
    \* ---- shared between threads ----
    running_prompt,               \* Arc<Mutex<Option<RunningPrompt>>>
    shared_stream,                \* Arc<Mutex<PromptStreamState>>
    stream_notification_pending,  \* Arc<AtomicBool>
    chan,                         \* mpsc channel of AppEvent
    killThreads,                  \* pids for which cancel spawned a kill thread
    \* ---- one worker thread per prompt id ----
    pc, process, child, status, stderrReader, response, result,
    updated,       \* the value of `updated` of the current turn of the read loop
    \* ---- history ----
    cancelled,     \* ids whose record cancel_active_prompt took
    removals,      \* per id: how often its record was removed from the slot
    resultsSent,   \* per id: how many Prompt(id, _) events the worker sent
    guardKilled,   \* ids of running threads whose process guard had to kill the child
    \* ---- one call of prompt_codex in detail ----
    execPc,               \* idle, read, wait, returned
    stdout_lines,         \* the lines read from stdout so far
    line_number, accumulator, failure_message, resolved_session_id,
    prior_session_id,     \* the session_id argument
    pushed,               \* the texts passed to stream.update
    exit_status, stderr_text,
    outcome,              \* the value prompt_codex returned
    \* ---- the launcher of the agent tool (prompt/codex.rs) ----
    env_vars,             \* the environment variables that are set
    files,                \* the paths that exist
    CODEX_LAUNCHER,       \* the OnceLock of codex_launcher
    launchPc,             \* per caller: its position in build_codex_command
    call,                 \* per caller: the arguments prompt and session_id
    seen,                 \* per caller: what node_path() and codex_script_path() returned
    launcher,             \* per caller: the reference codex_launcher returned
    command,              \* per caller: the Command build_codex_command returned
    initRuns,             \* how often the closure of get_or_init was started
    \* ---- the two mutexes and the threads that use them ----
    mutex,                \* per mutex: the thread that holds it, or Free
    threadPc              \* per thread: the instruction it is at; 0 unborn, -1 ended

uiVars == <<busy, locked, next_prompt_id, active_prompt_id, output_base, output,
            session_id, uiPc, uiArg>>
sharedVars == <<running_prompt, shared_stream, stream_notification_pending, chan,
                killThreads>>
workerVars == <<pc, process, child, status, stderrReader, response, result, updated>>
histVars == <<cancelled, removals, resultsSent, guardKilled>>
execVars == <<execPc, stdout_lines, line_number, accumulator, failure_message,
              resolved_session_id, prior_session_id, pushed, exit_status, stderr_text,
              outcome>>
launchVars == <<env_vars, files, CODEX_LAUNCHER, launchPc, call, seen,
                launcher, command, initRuns>>
lockVars == <<mutex, threadPc>>
vars == <<uiVars, sharedVars, workerVars, histVars, execVars, launchVars, lockVars>>

----------------------------------------------------------------------------
\* Text helpers (str::starts_with, String::push_str on sequences of chars).

StartsWith(s, prefix) ==
    /\ Len(prefix) <= Len(s)
    /\ SubSeq(s, 1, Len(prefix)) = prefix

Suffix(s, from) == SubSeq(s, from + 1, Len(s))

\* The marker append_cancelled_text pushes (CANCELLED_TEXT).
CancelledMark == 0

----------------------------------------------------------------------------
\* PromptStreamState (prompt/state.rs)

StreamStart(stream, prompt_id) == [prompt_id |-> prompt_id, text |-> <<>>]

StreamUpdateAcceptsIdle(stream, prompt_id) == stream.prompt_id \in {prompt_id, None}

\* The value update returns.
StreamUpdateAccepts(stream, prompt_id) == stream.prompt_id = prompt_id

StreamUpdateUnguarded(stream, prompt_id, text) == [stream EXCEPT !.text = text]
\* An update that always appends what lies behind the stored length; the code
\* does not do this.
StreamUpdateAppendsOnly(stream, prompt_id, text) ==
    IF stream.prompt_id # prompt_id THEN stream
    ELSE [stream EXCEPT !.text = stream.text \o Suffix(text, Len(stream.text))]

StreamUpdate(stream, prompt_id, text) ==
    IF stream.prompt_id # prompt_id THEN stream
    ELSE IF StartsWith(text, stream.text)
         THEN [stream EXCEPT !.text = stream.text \o Suffix(text, Len(stream.text))]
         ELSE [stream EXCEPT !.text = text]

StreamClearKeepsId(stream, prompt_id) ==
    IF stream.prompt_id = prompt_id THEN [stream EXCEPT !.text = <<>>] ELSE stream
\* A clear that resets the state whatever id it is given; the code does not do
\* this.
StreamClearAnyId(stream, prompt_id) == [prompt_id |-> None, text |-> <<>>]

StreamClear(stream, prompt_id) ==
    IF stream.prompt_id = prompt_id THEN [prompt_id |-> None, text |-> <<>>]
    ELSE stream

\* The empty slot (Option::None) of the running-prompt mutex.
NoRunningPrompt == [id |-> None, pid |-> None]

ClearRunningPromptAny(slot, prompt_id) == NoRunningPrompt

\* clear_running_prompt: removes the record only when it carries prompt_id.
ClearRunningPrompt(slot, prompt_id) ==
    IF slot # NoRunningPrompt /\ slot.id = prompt_id THEN NoRunningPrompt ELSE slot

----------------------------------------------------------------------------
\* AppEvent (events/mod.rs). A Prompt event carries PromptResult::Ok(text, sid) or
\* PromptResult::Err(message); sid is 0 for None and 1 for Some(_).
StreamEvent(id) ==
    [type |-> "PromptStream", id |-> id, ok |-> FALSE, text |-> <<>>, sid |-> 0]
PromptEvent(id, ok, text, sid) ==
    [type |-> "Prompt", id |-> id, ok |-> ok, text |-> text, sid |-> sid]

\* The '\x1D'-prefixed lines handle_event renders for PromptResult::Err: a
\* text no execution writes.
ErrorMark == 0 - (MaxPrompts + 1)

\* Strings of the accumulator (prompt/buffers.rs) are sequences of chars.
\* NL is '\n', RS the reasoning tag '\x1E', US the agent tag '\x1F'.
NL == "\n"
RS == "RS"
US == "US"
\* No marker at all; the code does not do this.
NoEllipsis == <<>>
Ellipsis == <<".", ".", ".">>

\* char::is_whitespace on the chars of the model.
IsWhitespace(c) == c \in {" ", NL}

\* str::ends_with
EndsWith(s, suffix) ==
    /\ Len(suffix) <= Len(s)
    /\ SubSeq(s, Len(s) - Len(suffix) + 1, Len(s)) = suffix

RECURSIVE TrimStart(_)
TrimStart(s) ==
    IF s # <<>> /\ IsWhitespace(Head(s)) THEN TrimStart(Tail(s)) ELSE s

RECURSIVE TrimEnd(_)
TrimEnd(s) ==
    IF s # <<>> /\ IsWhitespace(s[Len(s)]) THEN TrimEnd(SubSeq(s, 1, Len(s) - 1)) ELSE s

\* str::trim
Trim(s) == TrimEnd(TrimStart(s))

\* str::find("**"): the number of chars before the first "**", or -1.
RECURSIVE FindBold(_)
FindBold(s) ==
    IF Len(s) < 2 THEN -1
    ELSE IF s[1] = "*" /\ s[2] = "*" THEN 0
    ELSE LET rest == FindBold(Tail(s)) IN IF rest < 0 THEN -1 ELSE rest + 1

\* The loop of strip_bold_blocks; remaining starts with "**".
RECURSIVE StripBoldLoop(_, _)
StripBoldLoop(done, remaining) ==
    LET opened == Suffix(remaining, 2)
        end == FindBold(opened)
    IN  IF end < 0 THEN done \o <<"*", "*">> \o opened
        ELSE LET closed == Suffix(opened, end + 2)
                 collapsed == done \o Ellipsis \o <<NL, NL>>
                 start == FindBold(closed)
             IN  IF start < 0 THEN collapsed \o closed
                 ELSE StripBoldLoop(collapsed \o SubSeq(closed, 1, start),
                                    Suffix(closed, start))

\* strip_bold_blocks: every closed **...** span becomes "...\n\n".
strip_bold_blocks(text) ==
    LET first == FindBold(text)
    IN  IF first < 0 THEN text
        ELSE StripBoldLoop(SubSeq(text, 1, first), Suffix(text, first))

\* The loop of strip_bold_markers.
RECURSIVE StripMarkersLoop(_, _)
StripMarkersLoop(done, remaining) ==
    LET start == FindBold(remaining)
    IN  IF start < 0 THEN done \o remaining
        ELSE StripMarkersLoop(done \o SubSeq(remaining, 1, start),
                              Suffix(remaining, start + 2))

\* strip_bold_markers: every "**" is removed.
strip_bold_markers(text) ==
    LET first == FindBold(text)
    IN  IF first < 0 THEN text
        ELSE StripMarkersLoop(SubSeq(text, 1, first), Suffix(text, first))

\* The number of chars of the first line of s, its '\n' included.
RECURSIVE LineEnd(_)
LineEnd(s) ==
    IF s = <<>> THEN 0
    ELSE IF Head(s) = NL THEN 1
    ELSE 1 + LineEnd(Tail(s))

\* str::split_inclusive('\n'): the lines of s, each with its '\n'.
RECURSIVE SplitInclusive(_)
SplitInclusive(s) ==
    IF s = <<>> THEN <<>>
    ELSE <<SubSeq(s, 1, LineEnd(s))>> \o SplitInclusive(Suffix(s, LineEnd(s)))

----------------------------------------------------------------------------
\* ResponseBuffers (prompt/buffers.rs). self is the record of its fields.

\* Option::None of last_fragment_start.
NoFragment == -1

\* ResponseBuffers::default()
DefaultBuffers ==
    [reasoning |-> <<>>, joined_fragments |-> <<>>, last_fragment_start |-> NoFragment,
     deltas |-> <<>>, content_start |-> 0, display |-> <<>>, display_dirty |-> FALSE]

\* last_fragment, for a buffer that has one.
last_fragment(self) == Suffix(self.joined_fragments, self.last_fragment_start)

\* append_agent_fragment: every line of text behind the agent tag.
RECURSIVE AppendAgentLines(_, _)
AppendAgentLines(joined, lines) ==
    IF lines = <<>> THEN joined
    ELSE AppendAgentLines(joined \o <<US>> \o Head(lines), Tail(lines))

append_agent_fragment(joined, text) == AppendAgentLines(joined, SplitInclusive(text))

\* agent_fragment_matches: marked is text with the agent tag before every line.
RECURSIVE AgentLinesMatch(_, _)
AgentLinesMatch(remaining, lines) ==
    IF lines = <<>> THEN remaining = <<>>
    ELSE /\ remaining # <<>> /\ Head(remaining) = US
         /\ StartsWith(Tail(remaining), Head(lines))
         /\ AgentLinesMatch(Suffix(Tail(remaining), Len(Head(lines))), Tail(lines))
\* A comparison of the last fragment with the text by raw equality; the code
\* does not do this.
AgentMatchesRaw(marked, text) == marked = text

agent_fragment_matches(marked, text) == AgentLinesMatch(marked, SplitInclusive(text))

\* The paragraph break pushed before a fragment that is not the first.
FragmentBreak(joined) == IF joined # <<>> THEN <<NL, NL>> ELSE <<>>

push_fragment_inner(self, text, agent) ==
    LET stripped == strip_bold_blocks(text)
        start == Len(self.joined_fragments) + Len(FragmentBreak(self.joined_fragments))
        has_last == self.last_fragment_start # NoFragment
    IN  IF Trim(text) = <<>> THEN self
        ELSE IF Trim(stripped) = <<>> THEN self
        ELSE IF agent
        THEN IF has_last /\ agent_fragment_matches(last_fragment(self), stripped)
             THEN self
             ELSE [self EXCEPT
                     !.joined_fragments =
                         append_agent_fragment(@ \o FragmentBreak(@), stripped),
                     !.last_fragment_start = start,
                     !.display_dirty = TRUE]
        ELSE IF has_last /\ last_fragment(self) = stripped
             THEN self
             ELSE [self EXCEPT
                     !.joined_fragments = @ \o FragmentBreak(@) \o stripped,
                     !.last_fragment_start = start,
                     !.display_dirty = TRUE]

\* A push_fragment that appends without comparing to the last fragment; the
\* code does not do this.
PushFragmentNoDedup(self, text) ==
    IF Trim(strip_bold_blocks(text)) = <<>> THEN self
    ELSE [self EXCEPT
            !.joined_fragments = @ \o FragmentBreak(@) \o strip_bold_blocks(text),
            !.last_fragment_start = Len(self.joined_fragments)
                                    + Len(FragmentBreak(self.joined_fragments)),
            !.display_dirty = TRUE]

push_fragment(self, text) == push_fragment_inner(self, text, FALSE)

push_agent_fragment(self, text) == push_fragment_inner(self, text, TRUE)

\* A push_delta that puts the blank line before every delta once reasoning was
\* recorded; the code does not do this.
ReasoningBreakAlways(self) ==
    IF self.reasoning # <<>>
    THEN IF EndsWith(self.deltas, <<NL>>) THEN <<NL>> ELSE <<NL, NL>>
    ELSE <<>>

\* A push_delta that never closes the reasoning section; the code does not do
\* this.
NoReasoningBreak(self) == <<>>

\* The blank line push_delta puts between the reasoning section and the first
\* delta behind it.
ReasoningBreak(self) ==
    IF self.reasoning # <<>> /\ self.content_start = Len(self.deltas)
    THEN IF EndsWith(self.deltas, <<NL>>) THEN <<NL>> ELSE <<NL, NL>>
    ELSE <<>>

\* A push_delta that keeps only the newest delta; the code does not do this.
PushDeltaReplaces(self, text) ==
    IF text = <<>> THEN self ELSE [self EXCEPT !.deltas = text, !.display_dirty = TRUE]

push_delta(self, text) ==
    IF text = <<>> \/ EndsWith(self.deltas, text) THEN self
    ELSE [self EXCEPT
            !.deltas = @ \o ReasoningBreak(self) \o text,
            !.content_start = IF ReasoningBreak(self) # <<>>
                              THEN Len(self.deltas) + Len(ReasoningBreak(self))
                              ELSE @,
            !.display_dirty = TRUE]

\* str::strip_suffix("...") or the string itself.
StripEllipsis(s) ==
    IF EndsWith(s, Ellipsis) THEN SubSeq(s, 1, Len(s) - Len(Ellipsis)) ELSE s

\* The reasoning line push_reasoning mirrors into the delta stream.
ReasoningMirror(deltas, content) ==
    deltas \o (IF deltas # <<>> /\ ~EndsWith(deltas, <<NL>>) THEN <<NL>> ELSE <<>>)
           \o <<RS>> \o content \o Ellipsis \o <<NL>>

push_reasoning(self, text) ==
    LET trimmed == Trim(text)
        content == Trim(strip_bold_markers(trimmed))
    IN  IF trimmed = <<>> THEN self
        ELSE IF content = <<>> THEN self
        ELSE IF EndsWith(StripEllipsis(self.reasoning), content) THEN self
        ELSE [self EXCEPT
                !.reasoning = @ \o (IF @ # <<>> THEN <<NL>> ELSE <<>>) \o content
                                \o Ellipsis,
                !.deltas = ReasoningMirror(@, content),
                !.content_start = Len(ReasoningMirror(self.deltas, content)),
                !.display_dirty = TRUE]

\* The loop of push_reasoning_delta: every line behind the reasoning tag when
\* it starts a line of the delta stream.
RECURSIVE MirrorReasoningLines(_, _)
MirrorReasoningLines(deltas, lines) ==
    IF lines = <<>> THEN deltas
    ELSE MirrorReasoningLines(
             deltas \o (IF deltas = <<>> \/ EndsWith(deltas, <<NL>>) THEN <<RS>> ELSE <<>>)
                    \o Head(lines),
             Tail(lines))

\* A push_reasoning_delta that records the text and leaves the delta stream
\* alone; the code does not do this.
PushReasoningDeltaNoMirror(self, text) ==
    IF text = <<>> \/ EndsWith(self.reasoning, text) THEN self
    ELSE [self EXCEPT !.reasoning = @ \o text, !.display_dirty = TRUE]

push_reasoning_delta(self, text) ==
    IF text = <<>> \/ EndsWith(self.reasoning, text) THEN self
    ELSE [self EXCEPT
            !.reasoning = @ \o text,
            !.deltas = MirrorReasoningLines(@, SplitInclusive(text)),
            !.content_start = Len(MirrorReasoningLines(self.deltas, SplitInclusive(text))),
            !.display_dirty = TRUE]

has_deltas(self) == self.deltas # <<>>

\* The reasoning lines as rebuild_display and into_response write them: each
\* behind the reasoning tag and ended by '\n'.
RECURSIVE TagReasoningLines(_)
TagReasoningLines(lines) ==
    IF lines = <<>> THEN <<>>
    ELSE <<RS>> \o Head(lines)
         \o (IF EndsWith(Head(lines), <<NL>>) THEN <<>> ELSE <<NL>>)
         \o TagReasoningLines(Tail(lines))

\* The loop of reasoning_display_len: one for the tag, the line, and one more
\* when the line does not end in '\n'.
RECURSIVE DisplayLineLens(_)
DisplayLineLens(lines) ==
    IF lines = <<>> THEN 0
    ELSE 1 + Len(Head(lines)) + (IF EndsWith(Head(lines), <<NL>>) THEN 0 ELSE 1)
         + DisplayLineLens(Tail(lines))

reasoning_display_len(self) == DisplayLineLens(SplitInclusive(self.reasoning))

\* A visible_len that never looks at the delta stream; the code does not do
\* this.
VisibleLenSynthesized(self) ==
    IF self.reasoning = <<>> THEN Len(self.joined_fragments)
    ELSE reasoning_display_len(self) + 1 + Len(self.joined_fragments)

visible_len(self) ==
    IF self.deltas # <<>> THEN Len(self.deltas)
    ELSE IF self.reasoning = <<>> THEN Len(self.joined_fragments)
    ELSE reasoning_display_len(self) + 1 + Len(self.joined_fragments)

\* rebuild_display: the buffer with its cached display text made anew.
rebuild_display(self) ==
    [self EXCEPT
        !.display = TagReasoningLines(SplitInclusive(self.reasoning)) \o <<NL>>
                    \o self.joined_fragments,
        !.display_dirty = FALSE]

\* The buffer after visible_text(&mut self): the display is rebuilt when the
\* cached one is used and is dirty.
AfterVisibleText(self) ==
    IF self.deltas # <<>> \/ self.reasoning = <<>> \/ ~self.display_dirty THEN self
    ELSE rebuild_display(self)

\* The text visible_text returns.
visible_text(self) ==
    IF self.deltas # <<>> THEN self.deltas
    ELSE IF self.reasoning = <<>> THEN self.joined_fragments
    ELSE AfterVisibleText(self).display
\* An into_response that returns the delta tail after the reasoning boundary as
\* it is; the code does not do this.
IntoResponseRawTail(self) ==
    IF self.reasoning = <<>>
    THEN IF self.joined_fragments = <<>> THEN strip_bold_blocks(self.deltas)
         ELSE self.joined_fragments
    ELSE TagReasoningLines(SplitInclusive(self.reasoning)) \o <<NL>>
         \o (IF self.joined_fragments # <<>> THEN self.joined_fragments
             ELSE Suffix(self.deltas, self.content_start))

into_response(self) ==
    IF self.reasoning = <<>>
    THEN IF self.joined_fragments = <<>>
         THEN IF FindBold(self.deltas) >= 0 THEN strip_bold_blocks(self.deltas)
              ELSE self.deltas
         ELSE self.joined_fragments
    ELSE TagReasoningLines(SplitInclusive(self.reasoning)) \o <<NL>>
         \o (IF self.joined_fragments # <<>> THEN self.joined_fragments
             ELSE IF self.content_start < Len(self.deltas)
                  THEN strip_bold_blocks(Suffix(self.deltas, self.content_start))
                  ELSE <<>>)

----------------------------------------------------------------------------
\* serde_json::Value as far as the wire protocol uses it: a string, an object
\* (a function from its keys to values), an array, or anything else (null).
JStr(s) == [k |-> "str", v |-> s]
JObj(map) == [k |-> "obj", v |-> map]
JArr(items) == [k |-> "arr", v |-> items]
JNull == [k |-> "null"]

\* Option<String>
NoString == [some |-> FALSE]
SomeString(s) == [some |-> TRUE, v |-> s]

\* map.get(key).and_then(Value::as_str)
GetStr(map, key) ==
    IF key \in DOMAIN map /\ map[key].k = "str" THEN SomeString(map[key].v)
    ELSE NoString

\* map.get("type").and_then(Value::as_str).unwrap_or("")
KindOf(map) == IF GetStr(map, "type").some THEN GetStr(map, "type").v ELSE ""

\* kind.contains("reasoning"), over the type names of the model.
ContainsReasoning(kind) == kind \in {"reasoning", "agent_reasoning"}

ReasoningKeys == <<"summary", "content", "contents", "items">>
ContainerKeys == <<"content", "contents", "item", "items", "message", "messages", "output">>

RECURSIVE collect_reasoning_text(_, _)
RECURSIVE CollectReasoningKeys(_, _, _)
RECURSIVE CollectReasoningItems(_, _)

\* The loop of collect_reasoning_text over the keys of an object.
CollectReasoningKeys(map, keys, buffers) ==
    IF keys = <<>> THEN buffers
    ELSE CollectReasoningKeys(map, Tail(keys),
             IF Head(keys) \in DOMAIN map
             THEN collect_reasoning_text(map[Head(keys)], buffers)
             ELSE buffers)

\* The loop of collect_reasoning_text over the items of an array.
CollectReasoningItems(items, buffers) ==
    IF items = <<>> THEN buffers
    ELSE CollectReasoningItems(Tail(items), collect_reasoning_text(Head(items), buffers))

collect_reasoning_text(value, buffers) ==
    CASE value.k = "obj" ->
            CollectReasoningKeys(value.v, ReasoningKeys,
                IF GetStr(value.v, "text").some
                THEN push_reasoning(buffers, GetStr(value.v, "text").v)
                ELSE buffers)
      [] value.k = "arr" -> CollectReasoningItems(value.v, buffers)
      [] OTHER -> buffers

RECURSIVE collect_response_text(_, _)
RECURSIVE CollectKeys(_, _, _)
RECURSIVE CollectItems(_, _)

\* The loop of collect_response_text over the container keys of an object.
CollectKeys(map, keys, buffers) ==
    IF keys = <<>> THEN buffers
    ELSE CollectKeys(map, Tail(keys),
             IF Head(keys) \in DOMAIN map
             THEN collect_response_text(map[Head(keys)], buffers)
             ELSE buffers)

\* The loop of collect_response_text over the items of an array.
CollectItems(items, buffers) ==
    IF items = <<>> THEN buffers
    ELSE CollectItems(Tail(items), collect_response_text(Head(items), buffers))

\* collect_response_text on an object whose type contains "reasoning".
CollectReasoningObject(map, buffers) ==
    LET r1 == IF GetStr(map, "text").some
              THEN push_reasoning(buffers, GetStr(map, "text").v) ELSE buffers
        r2 == IF GetStr(map, "delta").some
              THEN push_reasoning_delta(r1, GetStr(map, "delta").v) ELSE r1
    IN  IF "summary" \in DOMAIN map THEN collect_reasoning_text(map["summary"], r2)
        ELSE r2

\* collect_response_text on any other object, up to the scan of its containers.
CollectAnswerObject(map, buffers) ==
    LET kind == KindOf(map)
        text == GetStr(map, "text")
        r1 == IF GetStr(map, "output_text").some
              THEN push_fragment(buffers, GetStr(map, "output_text").v) ELSE buffers
        r2 == IF GetStr(map, "delta").some
              THEN push_delta(r1, GetStr(map, "delta").v) ELSE r1
        r3 == IF kind \in {"output_text", "text", "agent_message", "assistant_message"}
                 /\ text.some
              THEN IF kind = "agent_message" THEN push_agent_fragment(r2, text.v)
                   ELSE push_fragment(r2, text.v)
              ELSE r2
    IN  IF kind = "message" /\ GetStr(map, "role") = SomeString("assistant") /\ text.some
        THEN push_fragment(r3, text.v)
        ELSE r3

collect_response_text(value, buffers) ==
    CASE value.k = "obj" ->
            IF ContainsReasoning(KindOf(value.v))
            THEN CollectReasoningObject(value.v, buffers)
            ELSE CollectKeys(value.v, ContainerKeys, CollectAnswerObject(value.v, buffers))
      [] value.k = "arr" -> CollectItems(value.v, buffers)
      [] OTHER -> buffers

\* The detailed call before prompt_codex is entered.
ExecInit ==
    /\ execPc = "idle"
    /\ stdout_lines = <<>>
    /\ line_number = 0
    /\ accumulator = DefaultBuffers
    /\ failure_message = NoString
    /\ resolved_session_id = NoString
    /\ prior_session_id = NoString
    /\ pushed = <<>>
    /\ exit_status = "none"
    /\ stderr_text = NoString
    /\ outcome = [ok |-> FALSE, error |-> "none"]

----------------------------------------------------------------------------
\* The launcher before the first call of build_codex_command: the OnceLock is
\* empty (prompt/codex.rs, line 75), no variable is set and no path exists yet.
Callers == 1..MaxCallers
NoLauncher == [kind |-> "none"]

LaunchInit ==
    /\ env_vars = {} /\ files = {}
    /\ CODEX_LAUNCHER = [state |-> "empty", by |-> 0, value |-> NoLauncher]
    /\ launchPc = [t \in Callers |-> "idle"]
    /\ call = [t \in Callers |-> [prompt |-> "", session_id |-> NoString]]
    /\ seen = [t \in Callers |-> [node |-> NoString, script |-> NoString]]
    /\ launcher = [t \in Callers |-> NoLauncher]
    /\ command = [t \in Callers |-> [program |-> "", args |-> <<>>]]
    /\ initRuns = 0

\* The threads that take the mutexes: the UI thread, the worker of each
\* prompt, the kill thread cancel starts for each record it took.
UiThread == <<"ui", 0>>
Threads == {UiThread} \cup {<<"worker", w>> : w \in PromptIds}
                     \cup {<<"kill", w>> : w \in PromptIds}
Mutexes == {"running_prompt", "shared_stream"}
Free == <<"free", 0>>

\* Both mutexes are free (app/mod.rs, AutoAgentApp::new); only the UI thread runs.
LockInit ==
    /\ mutex = [m \in Mutexes |-> Free]
    /\ threadPc = [th \in Threads |-> IF th = UiThread THEN 1 ELSE 0]

Init ==
    /\ busy = FALSE /\ locked = FALSE
    /\ next_prompt_id = 1 /\ active_prompt_id = None
    /\ output_base = 0 /\ output = <<>> /\ session_id = 0
    /\ uiPc = "idle" /\ uiArg = None
    /\ running_prompt = NoRunningPrompt
    /\ shared_stream = [prompt_id |-> None, text |-> <<>>]
    /\ stream_notification_pending = FALSE
    /\ chan = <<>>
    /\ killThreads = {}
    /\ pc = [w \in PromptIds |-> "unborn"]
    /\ process = [w \in PromptIds |-> [child |-> FALSE, stderr_handle |-> FALSE]]
    /\ child = [w \in PromptIds |-> "none"]
    /\ status = [w \in PromptIds |-> "none"]
    /\ stderrReader = [w \in PromptIds |-> "none"]
    /\ response = [w \in PromptIds |-> <<>>]
    /\ result = [w \in PromptIds |-> "none"]
    /\ updated = [w \in PromptIds |-> "unset"]
    /\ cancelled = {}
    /\ removals = [w \in PromptIds |-> 0]
    /\ resultsSent = [w \in PromptIds |-> 0]
    /\ guardKilled = {}
    /\ ExecInit
    /\ LaunchInit
    /\ LockInit


----------------------------------------------------------------------------
\* AutoAgentApp::submit (app/events.rs). The guard is the one of the function
\* and of its caller; the prompt text is non-empty after trimming.

SubmitGuardNone == TRUE

\* The guard of submit, which its caller tests too.
SubmitGuard == ~busy /\ ~locked

\* submit, first part: the fields of the app and the store to the atomic flag.
SubmitBegin ==
    /\ uiPc = "idle"
    /\ SubmitGuard
    /\ next_prompt_id <= MaxPrompts
    /\ uiArg' = next_prompt_id
    /\ next_prompt_id' = next_prompt_id + 1
    /\ busy' = TRUE /\ locked' = TRUE
    /\ active_prompt_id' = next_prompt_id
    /\ output_base' = 1
    /\ output' = <<>>
    /\ stream_notification_pending' = FALSE
    /\ uiPc' = "submit_start"
    /\ UNCHANGED <<session_id, running_prompt, shared_stream, chan, killThreads,
                   workerVars, histVars>>
    /\ UNCHANGED <<execVars, launchVars, lockVars>>

\* submit, second part: stream.start(prompt_id) under the lock, thread::spawn.
SubmitStart ==
    /\ uiPc = "submit_start"
    /\ shared_stream' = StreamStart(shared_stream, uiArg)
    /\ pc' = [pc EXCEPT ![uiArg] = "spawn"]
    /\ uiPc' = "idle" /\ uiArg' = None
    /\ UNCHANGED <<busy, locked, next_prompt_id, active_prompt_id, output_base, output,
                   session_id, running_prompt, stream_notification_pending, chan,
                   killThreads, process, child, status, stderrReader, response, result, histVars, updated>>
    /\ UNCHANGED <<execVars, launchVars, lockVars>>

\* active.take() of cancel_active_prompt: what is left in the slot.
CancelTake(slot) == NoRunningPrompt

\* cancel_active_prompt, first part: take the record; return when there is none,
\* otherwise reset the fields of the app. Its callers test self.busy.
CancelBegin ==
    /\ uiPc = "idle"
    /\ busy
    /\ IF running_prompt = NoRunningPrompt
       THEN UNCHANGED <<running_prompt, busy, locked, active_prompt_id, output, uiPc,
                        uiArg, cancelled, removals>>
       ELSE /\ running_prompt' = CancelTake(running_prompt)
            /\ uiArg' = running_prompt.id
            /\ active_prompt_id' = None
            /\ busy' = FALSE /\ locked' = FALSE
            /\ output' = Append(output, CancelledMark)
            /\ cancelled' = cancelled \cup {running_prompt.id}
            /\ removals' = [removals EXCEPT ![running_prompt.id] = @ + 1]
            /\ uiPc' = "cancel_flag"
    /\ UNCHANGED <<next_prompt_id, output_base, session_id, shared_stream,
                   stream_notification_pending, chan, killThreads, workerVars,
                   resultsSent, guardKilled>>
    /\ UNCHANGED <<execVars, launchVars, lockVars>>

\* cancel_active_prompt: stream_notification_pending.store(false). The first part
\* already appended the cancelled text: that touches the app's own fields only.
CancelFlag ==
    /\ uiPc = "cancel_flag"
    /\ stream_notification_pending' = FALSE
    /\ uiPc' = "cancel_clear"
    /\ UNCHANGED <<busy, locked, next_prompt_id, active_prompt_id, output_base, output,
                   session_id, uiArg, running_prompt, shared_stream, chan, killThreads,
                   workerVars, histVars>>
    /\ UNCHANGED <<execVars, launchVars, lockVars>>

\* cancel_active_prompt, last part: stream.clear(id) and the kill thread.
CancelClear ==
    /\ uiPc = "cancel_clear"
    /\ shared_stream' = StreamClear(shared_stream, uiArg)
    /\ killThreads' = killThreads \cup {uiArg}
    /\ uiPc' = "idle" /\ uiArg' = None
    /\ UNCHANGED <<busy, locked, next_prompt_id, active_prompt_id, output_base, output,
                   session_id, running_prompt, stream_notification_pending, chan,
                   workerVars, histVars>>
    /\ UNCHANGED <<execVars, launchVars, lockVars>>
\* A Clear that is offered while a prompt runs; the code does not do this.
CanClearWhileBusy == output_base # 0 \/ output # <<>> \/ session_id # 0

\* can_clear (app/mod.rs): the Clear button is offered only when it holds.
can_clear == ~busy /\ (output_base # 0 \/ output # <<>> \/ session_id # 0)

\* clear_session, first part: fields and the store to the flag.
ClearSessionBegin ==
    /\ uiPc = "idle"
    /\ can_clear
    /\ output' = <<>> /\ output_base' = 0
    /\ session_id' = 0
    /\ active_prompt_id' = None
    /\ locked' = FALSE
    /\ stream_notification_pending' = FALSE
    /\ uiPc' = "clear_stream"
    /\ UNCHANGED <<busy, next_prompt_id, uiArg, running_prompt, shared_stream, chan,
                   killThreads, workerVars, histVars>>
    /\ UNCHANGED <<execVars, launchVars, lockVars>>

\* clear_session, second part: the stream state is reset whatever id it holds.
ClearSessionStream ==
    /\ uiPc = "clear_stream"
    /\ shared_stream' = [prompt_id |-> None, text |-> <<>>]
    /\ uiPc' = "idle"
    /\ UNCHANGED <<busy, locked, next_prompt_id, active_prompt_id, output_base, output,
                   session_id, uiArg, running_prompt, stream_notification_pending, chan,
                   killThreads, workerVars, histVars>>
    /\ UNCHANGED <<execVars, launchVars, lockVars>>

----------------------------------------------------------------------------
\* AutoAgentApp::poll / handle_event (app/events.rs): one event per turn of the
\* while loop of poll.

\* PromptStream(id): the flag is cleared first; the copy follows under the lock
\* when id is the active prompt.
HandleStreamBegin ==
    /\ uiPc = "idle"
    /\ chan # <<>>
    /\ Head(chan).type = "PromptStream"
    /\ chan' = Tail(chan)
    /\ stream_notification_pending' = FALSE
    /\ IF active_prompt_id = Head(chan).id
       THEN uiPc' = "stream_copy" /\ uiArg' = Head(chan).id
       ELSE UNCHANGED <<uiPc, uiArg>>
    /\ UNCHANGED <<busy, locked, next_prompt_id, active_prompt_id, output_base, output,
                   session_id, running_prompt, shared_stream, killThreads, workerVars,
                   histVars>>
    /\ UNCHANGED <<execVars, launchVars, lockVars>>
\* A copy that always appends what lies behind the length of the shown text;
\* the code does not do this.
CopyStreamAppends(out, stream, prompt_id) ==
    IF stream.prompt_id # prompt_id THEN out
    ELSE out \o Suffix(stream.text, Len(out))

\* The text of self.output[output_base..] after the copy of the shared text.
CopyStream(out, stream, prompt_id) ==
    IF stream.prompt_id # prompt_id THEN out
    ELSE IF StartsWith(stream.text, out)
         THEN out \o Suffix(stream.text, Len(out))
         ELSE stream.text
\* The PromptStream branch on the whole of self.output, of which the first
\* base characters are the prompts and replies rendered before: push_str of the
\* rest of the shared text, or truncate(output_base) and push_str of all of it.
CopyStreamWhole(whole, base, stream, prompt_id) ==
    IF stream.prompt_id # prompt_id THEN whole
    ELSE IF StartsWith(stream.text, Suffix(whole, base))
         THEN whole \o Suffix(stream.text, Len(Suffix(whole, base)))
         ELSE SubSeq(whole, 1, base) \o stream.text

HandleStreamCopy ==
    /\ uiPc = "stream_copy"
    /\ output' = CopyStream(output, shared_stream, uiArg)
    /\ uiPc' = "idle" /\ uiArg' = None
    /\ UNCHANGED <<busy, locked, next_prompt_id, active_prompt_id, output_base,
                   session_id, sharedVars, workerVars, histVars>>
    /\ UNCHANGED <<execVars, launchVars, lockVars>>
\* A Prompt handler that takes the result of any execution; the code does not
\* do this.
HandlePromptAnyId ==
    /\ uiPc = "idle"
    /\ chan # <<>>
    /\ Head(chan).type = "Prompt"
    /\ chan' = Tail(chan)
    /\ busy' = FALSE /\ locked' = FALSE
    /\ output' = IF Head(chan).ok THEN Head(chan).text ELSE <<ErrorMark>>
    /\ session_id' = IF Head(chan).ok /\ Head(chan).sid # 0
                     THEN Head(chan).sid ELSE session_id
    /\ active_prompt_id' = None
    /\ stream_notification_pending' = FALSE
    /\ uiPc' = "prompt_clear" /\ uiArg' = Head(chan).id
    /\ UNCHANGED <<next_prompt_id, output_base, running_prompt, shared_stream,
                   killThreads, workerVars, histVars>>
    /\ UNCHANGED <<execVars, launchVars, lockVars>>

\* Prompt(id, result): ignored unless id is the active prompt.
HandlePromptBegin ==
    /\ uiPc = "idle"
    /\ chan # <<>>
    /\ Head(chan).type = "Prompt"
    /\ chan' = Tail(chan)
    /\ IF active_prompt_id # Head(chan).id
       THEN UNCHANGED <<busy, locked, output, session_id, active_prompt_id,
                        stream_notification_pending, uiPc, uiArg>>
       ELSE /\ busy' = FALSE /\ locked' = FALSE
            /\ output' = IF Head(chan).ok THEN Head(chan).text ELSE <<ErrorMark>>
            /\ session_id' = IF Head(chan).ok /\ Head(chan).sid # 0
                             THEN Head(chan).sid ELSE session_id
            /\ active_prompt_id' = None
            /\ stream_notification_pending' = FALSE
            /\ uiPc' = "prompt_clear" /\ uiArg' = Head(chan).id
    /\ UNCHANGED <<next_prompt_id, output_base, running_prompt, shared_stream,
                   killThreads, workerVars, histVars>>
    /\ UNCHANGED <<execVars, launchVars, lockVars>>

HandlePromptClear ==
    /\ uiPc = "prompt_clear"
    /\ shared_stream' = StreamClear(shared_stream, uiArg)
    /\ uiPc' = "idle" /\ uiArg' = None
    /\ UNCHANGED <<busy, locked, next_prompt_id, active_prompt_id, output_base, output,
                   session_id, running_prompt, stream_notification_pending, chan,
                   killThreads, workerVars, histVars>>
    /\ UNCHANGED <<execVars, launchVars, lockVars>>

----------------------------------------------------------------------------
\* prompt_codex (prompt/execution.rs), run by the worker thread of prompt w.

\* A spawn that publishes the running-prompt record although it failed; the
\* code does not do this.
SpawnPublishesOnFailure(w) ==
    /\ pc[w] = "spawn"
    /\ \/ /\ child' = [child EXCEPT ![w] = "running"]
          /\ process' = [process EXCEPT ![w].child = TRUE]
          /\ pc' = [pc EXCEPT ![w] = "publish"]
          /\ UNCHANGED <<result, running_prompt>>
       \/ /\ result' = [result EXCEPT ![w] = "err"]
          /\ running_prompt' = [id |-> w, pid |-> w]
          /\ pc' = [pc EXCEPT ![w] = "returned"]
          /\ UNCHANGED <<child, process>>
    /\ UNCHANGED <<uiVars, shared_stream, stream_notification_pending, chan,
                   killThreads, status, stderrReader, response, histVars, updated>>
    /\ UNCHANGED <<execVars, launchVars, lockVars>>

\* Command::spawn: the child runs, or the spawn error is returned at once.
Spawn(w) ==
    /\ pc[w] = "spawn"
    /\ \/ /\ child' = [child EXCEPT ![w] = "running"]
          /\ process' = [process EXCEPT ![w].child = TRUE]
          /\ pc' = [pc EXCEPT ![w] = "publish"]
          /\ UNCHANGED result
       \/ /\ result' = [result EXCEPT ![w] = "err"]
          /\ pc' = [pc EXCEPT ![w] = "returned"]
          /\ UNCHANGED <<child, process>>
    /\ UNCHANGED <<uiVars, sharedVars, status, stderrReader, response, histVars, updated>>
    /\ UNCHANGED <<execVars, launchVars, lockVars>>

\* The record is written under the running-prompt lock; RunningPromptGuard is made.
Publish(w) ==
    /\ pc[w] = "publish"
    /\ running_prompt' = [id |-> w, pid |-> w]
    /\ pc' = [pc EXCEPT ![w] = "pipes"]
    /\ UNCHANGED <<uiVars, shared_stream, stream_notification_pending, chan,
                   killThreads, process, child, status, stderrReader, response, result, histVars, updated>>
    /\ UNCHANGED <<execVars, launchVars, lockVars>>

\* stdout and stderr are taken and the stderr reader thread is started, or a
\* pipe is missing and the error is returned before the reader exists.
Pipes(w) ==
    /\ pc[w] = "pipes"
    /\ \/ /\ stderrReader' = [stderrReader EXCEPT ![w] = "running"]
          /\ process' = [process EXCEPT ![w].stderr_handle = TRUE]
          /\ pc' = [pc EXCEPT ![w] = "read"]
          /\ UNCHANGED result
       \/ /\ result' = [result EXCEPT ![w] = "err"]
          /\ pc' = [pc EXCEPT ![w] = "drop_running"]
          /\ UNCHANGED <<stderrReader, process>>
    /\ UNCHANGED <<uiVars, sharedVars, child, status, response,
                   histVars, updated>>
    /\ UNCHANGED <<execVars, launchVars, lockVars>>

\* The kinds of line the child can write: blank, not JSON, an event that appends
\* to the visible text, one that rewrites it, one that leaves it as it is.
LineKinds == {"blank", "invalid", "append", "rewrite", "same"}

\* The chars of execution w: the texts of two executions differ.
Char(w) == w
AltChar(w) == 0 - w

\* The child of w can write a line of kind k when the visible text is text: the
\* text grows to MaxVisible chars and is rewritten once.
CanWrite(w, text, k) ==
    CASE k = "append" -> Len(text) < MaxVisible
      [] k = "rewrite" -> text # <<>> /\ Head(text) = Char(w)
      [] OTHER -> TRUE

\* The visible text of the accumulator after an event of kind k.
VisibleAfter(w, text, k) ==
    CASE k = "append" -> Append(text, Char(w))
      [] k = "rewrite" -> <<AltChar(w)>>
      [] OTHER -> text

\* One turn of the read loop up to the push decision: a blank line is skipped,
\* a line that is not JSON returns the error, an event is folded in and the
\* visible text is pushed when it changed.
ReadLine(w) ==
    /\ pc[w] = "read"
    /\ \E k \in LineKinds :
        /\ CanWrite(w, response[w], k)
        /\ response' = [response EXCEPT ![w] =
                          IF k = "invalid" THEN <<>> ELSE VisibleAfter(w, @, k)]
        /\ IF k = "invalid"
           THEN /\ result' = [result EXCEPT ![w] = "err"]
                /\ pc' = [pc EXCEPT ![w] = "drop_running"]
           ELSE /\ UNCHANGED result
                /\ pc' = [pc EXCEPT ![w] =
                            IF response'[w] # response[w] THEN "update" ELSE "read"]
    /\ updated' = [updated EXCEPT ![w] = "unset"]
    /\ UNCHANGED <<uiVars, sharedVars, process, child, status, stderrReader, histVars>>
    /\ UNCHANGED <<execVars, launchVars, lockVars>>
\* An end of stream that goes on to the join without the wait; the code does
\* not do this.
ReadEofSkipsWait(w) ==
    /\ pc[w] = "read"
    /\ pc' = [pc EXCEPT ![w] = "join"]
    /\ updated' = [updated EXCEPT ![w] = "unset"]
    /\ UNCHANGED <<uiVars, sharedVars, process, child, status, stderrReader, response, result, histVars>>
    /\ UNCHANGED <<execVars, launchVars, lockVars>>

\* read_line returns 0: the child closed its stdout.
ReadEof(w) ==
    /\ pc[w] = "read"
    /\ pc' = [pc EXCEPT ![w] = "wait"]
    /\ updated' = [updated EXCEPT ![w] = "unset"]
    /\ UNCHANGED <<uiVars, sharedVars, process, child, status, stderrReader, response, result, histVars>>
    /\ UNCHANGED <<execVars, launchVars, lockVars>>

\* read_line fails (an I/O error, bytes that are not UTF-8).
ReadError(w) ==
    /\ pc[w] = "read"
    /\ result' = [result EXCEPT ![w] = "err"]
    /\ response' = [response EXCEPT ![w] = <<>>]
    /\ pc' = [pc EXCEPT ![w] = "drop_running"]
    /\ updated' = [updated EXCEPT ![w] = "unset"]
    /\ UNCHANGED <<uiVars, sharedVars, process, child, status, stderrReader, histVars>>
    /\ UNCHANGED <<execVars, launchVars, lockVars>>

\* thread::spawn of the stderr reader panics when the OS cannot create the
\* thread: the stack unwinds through the two guards and the worker thread ends
\* without a result. stdout and stderr are already taken, no reader exists.
Unwind(w) ==
    /\ pc[w] = "pipes"
    /\ result' = [result EXCEPT ![w] = "panic"]
    /\ pc' = [pc EXCEPT ![w] = "drop_running"]
    /\ UNCHANGED <<uiVars, sharedVars, process, child, status, stderrReader, response,
                   histVars, updated>>
    /\ UNCHANGED <<execVars, launchVars, lockVars>>

\* stream.update(prompt_id, visible_text) under the shared-stream lock.
Update(w) ==
    /\ pc[w] = "update"
    /\ shared_stream' = StreamUpdate(shared_stream, w, response[w])
    /\ updated' = [updated EXCEPT ![w] =
                     IF StreamUpdateAccepts(shared_stream, w) THEN "accepted"
                     ELSE "refused"]
    /\ pc' = [pc EXCEPT ![w] = IF updated'[w] = "accepted" THEN "swap" ELSE "read"]
    /\ UNCHANGED <<uiVars, running_prompt, stream_notification_pending, chan,
                   killThreads, process, child, status, stderrReader, response, result, histVars>>
    /\ UNCHANGED <<execVars, launchVars, lockVars>>

\* Whether the value swap(true) returned asks for a wake.
WakeNeeded(previous) == ~previous

\* stream_notification_pending.swap(true)
Swap(w) ==
    /\ pc[w] = "swap"
    /\ stream_notification_pending' = TRUE
    /\ pc' = [pc EXCEPT ![w] =
                IF WakeNeeded(stream_notification_pending) THEN "send" ELSE "read"]
    /\ updated' = [updated EXCEPT ![w] = "unset"]
    /\ UNCHANGED <<uiVars, running_prompt, shared_stream, chan, killThreads, process,
                   child, status, stderrReader, response, result,
                   histVars>>
    /\ UNCHANGED <<execVars, launchVars, lockVars>>

\* tx.send(AppEvent::PromptStream(prompt_id))
SendWake(w) ==
    /\ pc[w] = "send"
    /\ chan' = Append(chan, StreamEvent(w))
    /\ pc' = [pc EXCEPT ![w] = "read"]
    /\ UNCHANGED <<uiVars, running_prompt, shared_stream, stream_notification_pending,
                   killThreads, process, child, status, stderrReader, response, result, histVars, updated>>
    /\ UNCHANGED <<execVars, launchVars, lockVars>>

\* child.wait() returns the exit status once the child has exited.
Wait(w) ==
    /\ pc[w] = "wait"
    /\ child[w] = "exited"
    /\ child' = [child EXCEPT ![w] = "reaped"]
    /\ \E st \in {"success", "failure"} : status' = [status EXCEPT ![w] = st]
    /\ pc' = [pc EXCEPT ![w] = "join"]
    /\ UNCHANGED <<uiVars, sharedVars, process, stderrReader, response, result,
                   histVars, updated>>
    /\ UNCHANGED <<execVars, launchVars, lockVars>>

\* child.wait() fails: the error is returned with the child still in the guard.
WaitError(w) ==
    /\ pc[w] = "wait"
    /\ result' = [result EXCEPT ![w] = "err"]
    /\ response' = [response EXCEPT ![w] = <<>>]
    /\ pc' = [pc EXCEPT ![w] = "drop_running"]
    /\ UNCHANGED <<uiVars, sharedVars, process, child, status, stderrReader,
                   histVars, updated>>
    /\ UNCHANGED <<execVars, launchVars, lockVars>>

\* The result prompt_codex chooses from the exit status.
ExitResult(st) == IF st = "success" THEN "ok" ELSE "err"

\* join_stderr_reader on the handle taken out of the guard, then process.child
\* is taken and the result is chosen from the exit status. The reader thread
\* shares nothing with the other threads: it reads stderr to the end of file,
\* which the exit of the child brings, and returns the text ("finished") or a
\* read error or panic ("failed"); the join is where that outcome shows. A
\* reader that failed makes the call return the error, the child still in the
\* guard.
Join(w) ==
    /\ pc[w] = "join"
    /\ stderrReader' = [stderrReader EXCEPT ![w] = "joined"]
    /\ \E reader \in {"finished", "failed"} :
       IF reader = "failed"
       THEN /\ process' = [process EXCEPT ![w].stderr_handle = FALSE]
            /\ result' = [result EXCEPT ![w] = "err"]
       ELSE /\ process' = [process EXCEPT ![w] =
                             [child |-> FALSE, stderr_handle |-> FALSE]]
            /\ result' = [result EXCEPT ![w] = ExitResult(status[w])]
    /\ status' = [status EXCEPT ![w] = "none"]
    /\ response' = [response EXCEPT ![w] = IF result'[w] = "ok" THEN @ ELSE <<>>]
    /\ pc' = [pc EXCEPT ![w] = "drop_running"]
    /\ UNCHANGED <<uiVars, sharedVars, child, histVars, updated>>
    /\ UNCHANGED <<execVars, launchVars, lockVars>>

\* RunningPromptGuard::drop, the first of the two guards to be dropped (locals are
\* dropped in reverse order of declaration).
DropRunningPrompt(w) ==
    /\ pc[w] = "drop_running"
    /\ running_prompt' = ClearRunningPrompt(running_prompt, w)
    /\ removals' = IF running_prompt' # running_prompt
                   THEN [removals EXCEPT ![running_prompt.id] = @ + 1]
                   ELSE removals
    /\ pc' = [pc EXCEPT ![w] = "drop_process"]
    /\ UNCHANGED <<uiVars, shared_stream, stream_notification_pending, chan,
                   killThreads, process, child, status, stderrReader, response,
                   result, cancelled, resultsSent, guardKilled, updated>>
    /\ UNCHANGED <<execVars, launchVars, lockVars>>

GuardDropChildNoKill(holds, state) ==
    IF holds /\ state = "exited" THEN "reaped" ELSE state

\* PromptProcessGuard::drop, the child: nothing when the guard no longer holds
\* it; otherwise try_wait, and kill then wait unless it reported an exit status.
GuardDropChild(holds, state) ==
    IF ~holds THEN state
    ELSE CASE state = "running" -> "reaped"   \* Ok(None) or Err: kill, wait
           [] state = "exited" -> "reaped"    \* Ok(Some(_)), or Err: kill fails, wait
           [] OTHER -> state                  \* already waited on: Ok(Some(_))

\* PromptProcessGuard::drop, the reader: joined when the guard holds the handle.
\* The child is gone by then, so the reader does end; its outcome is ignored.
GuardDropReader(holds, state) == IF holds THEN "joined" ELSE state

\* PromptProcessGuard::drop: the child first, then the reader. prompt_codex has
\* returned (or unwound) when it ends.
DropProcess(w) ==
    /\ pc[w] = "drop_process"
    /\ child' = [child EXCEPT ![w] = GuardDropChild(process[w].child, @)]
    /\ stderrReader' = [stderrReader EXCEPT ![w] =
                          GuardDropReader(process[w].stderr_handle, @)]
    /\ guardKilled' = IF process[w].child /\ child[w] = "running"
                      THEN guardKilled \cup {w} ELSE guardKilled
    /\ process' = [process EXCEPT ![w] = [child |-> FALSE, stderr_handle |-> FALSE]]
    /\ pc' = [pc EXCEPT ![w] = "returned"]
    /\ UNCHANGED <<uiVars, sharedVars, status, response, result, cancelled, removals,
                   resultsSent, updated>>
    /\ UNCHANGED <<execVars, launchVars, lockVars>>

\* The closure of submit's thread after prompt_codex returned: the one Prompt
\* event of the execution, Ok(text, session id) or Err(message). A panic ends
\* the thread before the send. The locals of the thread are gone afterwards.
SendResult(w) ==
    /\ pc[w] = "returned"
    /\ IF result[w] = "panic"
       THEN UNCHANGED <<chan, resultsSent>>
       ELSE /\ \E sid \in {0, 1} :
                chan' = Append(chan, IF result[w] = "ok"
                                     THEN PromptEvent(w, TRUE, response[w], sid)
                                     ELSE PromptEvent(w, FALSE, <<>>, 0))
            /\ resultsSent' = [resultsSent EXCEPT ![w] = @ + 1]
    /\ response' = [response EXCEPT ![w] = <<>>]
    /\ result' = [result EXCEPT ![w] = "none"]
    /\ guardKilled' = guardKilled \ {w}
    /\ pc' = [pc EXCEPT ![w] = "done"]
    /\ UNCHANGED <<uiVars, running_prompt, shared_stream, stream_notification_pending,
                   killThreads, process, child, status, stderrReader, cancelled,
                   removals, updated>>
    /\ UNCHANGED <<execVars, launchVars, lockVars>>

----------------------------------------------------------------------------
\* The environment: the child processes, and the threads around the worker.

\* The child exits by itself, with status 0 or not.
ChildExit(w) ==
    /\ child[w] = "running"
    /\ \E st \in {"success", "failure"} : status' = [status EXCEPT ![w] = st]
    /\ child' = [child EXCEPT ![w] = "exited"]
    /\ UNCHANGED <<uiVars, sharedVars, pc, process, stderrReader, response, result, histVars, updated>>
    /\ UNCHANGED <<execVars, launchVars, lockVars>>

\* kill_prompt_process(pid) on the thread cancel spawned: taskkill ends the child
\* if it still runs; if it does not, taskkill fails, which is logged and changes
\* nothing, so only the kill of a running child is a step.
KillPromptProcess(p) ==
    /\ p \in killThreads
    /\ child[p] = "running"
    /\ child' = [child EXCEPT ![p] = "exited"]
    /\ UNCHANGED <<uiVars, sharedVars, pc, process, status, stderrReader, response,
                   result, histVars, updated>>
    /\ UNCHANGED <<execVars, launchVars, lockVars>>

----------------------------------------------------------------------------
UiStep ==
    \/ SubmitBegin \/ SubmitStart
    \/ CancelBegin \/ CancelFlag \/ CancelClear
    \/ ClearSessionBegin \/ ClearSessionStream
    \/ HandleStreamBegin \/ HandleStreamCopy
    \/ HandlePromptBegin \/ HandlePromptClear

WorkerStep(w) ==
    \/ Spawn(w) \/ Publish(w) \/ Pipes(w)
    \/ ReadLine(w) \/ ReadEof(w) \/ ReadError(w)
    \/ Update(w) \/ Swap(w) \/ SendWake(w)
    \/ Wait(w) \/ WaitError(w) \/ Join(w)
    \/ DropRunningPrompt(w) \/ DropProcess(w)
    \/ SendResult(w)

EnvStep ==
    \/ \E w \in PromptIds : ChildExit(w)
    \/ \E p \in PromptIds : KillPromptProcess(p)

Next ==
    \/ UiStep
    \/ \E w \in PromptIds : WorkerStep(w)
    \/ \E w \in PromptIds : Unwind(w)
    \/ EnvStep

Spec == Init /\ [][Next]_vars

\* The steps the UI thread takes without the user: the rest of a handler it is
\* in, and poll, which every frame runs and every send asks a repaint for.
UiProgress ==
    \/ SubmitStart \/ CancelFlag \/ CancelClear \/ ClearSessionStream
    \/ HandleStreamBegin \/ HandleStreamCopy
    \/ HandlePromptBegin \/ HandlePromptClear

\* The scheduling: every thread that can take a step takes one in the end, and
\* every child exits in the end (it closes its pipes, exits, or is killed).
\* Nothing obliges the user to act or a thread creation to fail.
Fairness ==
    /\ WF_vars(UiProgress)
    /\ \A w \in PromptIds : WF_vars(WorkerStep(w))
    /\ \A w \in PromptIds : WF_vars(ChildExit(w))

LiveSpec == Init /\ [][Next]_vars /\ Fairness

\* One call of prompt_codex in detail (prompt/execution.rs, lines 126-222):
\* the lines of stdout, the locals of the read loop and the result. The worker
\* threads above keep of it only the visible text and ok/err.

\* The texts events carry.
EventTexts == {<<"a">>, <<"b">>, <<"t", NL, "u">>}

\* The texts a push is tried with: empty, blank, plain, with a line break, with
\* a bold span, with an open bold marker.
PushTexts ==
    {<<>>, <<" ">>, <<"a">>, <<"b">>, <<"a", "b">>, <<"t", NL, "u">>,
     <<"*", "*", "a", "*", "*">>, <<"*", "*", "b">>}

\* The events of the wire protocol, each one object.
OutputTextEvent(text) == JObj([type |-> JStr("output_text"), output_text |-> JStr(text)])
TextEvent(kind, text) == JObj([type |-> JStr(kind), text |-> JStr(text)])
DeltaEvent(text) == JObj([type |-> JStr("delta"), delta |-> JStr(text)])
ReasoningEvent(text) == JObj([type |-> JStr("reasoning"), text |-> JStr(text)])
ReasoningDeltaEvent(text) == JObj([type |-> JStr("reasoning"), delta |-> JStr(text)])
ThreadStartedEvent(tid) == JObj([type |-> JStr("thread.started"), thread_id |-> JStr(tid)])
ErrorEvent(message) == JObj([type |-> JStr("error"), message |-> JStr(message)])
\* thread.started without thread_id, error without message.
BareEvent(kind) == JObj([type |-> JStr(kind)])

\* The signals: the objects that carry one effect each.
Signals ==
    {OutputTextEvent(<<"a">>), TextEvent("agent_message", <<"t", NL, "u">>),
     DeltaEvent(<<"a">>), DeltaEvent(<<"b">>),
     ReasoningEvent(<<"t">>), ReasoningDeltaEvent(<<"t">>),
     ThreadStartedEvent("abc"), ThreadStartedEvent("xyz"),
     ErrorEvent(<<"m1">>), ErrorEvent(<<"m2">>)}

\* A signal inside a container field of an object without a type, as the one
\* item or as the item of an array.
Nested(key, signal) == JObj([c \in {key} |-> signal])
NestedInArray(key, signal) == JObj([c \in {key} |-> JArr(<<signal>>)])

NestedSignals ==
    {Nested("item", OutputTextEvent(<<"a">>)),
     NestedInArray("content", DeltaEvent(<<"b">>)),
     Nested("item", ThreadStartedEvent("abc")),
     Nested("message", ErrorEvent(<<"m1">>))}

\* A line of stdout: blank, not JSON, or one JSON value; indent is the
\* whitespace around it, which trim() removes.
BlankLine == [kind |-> "blank", indent |-> 1, value |-> JNull]
InvalidLine(indent) == [kind |-> "invalid", indent |-> indent, value |-> JNull]
JsonLine(value) == [kind |-> "json", indent |-> 0, value |-> value]

StdoutLines ==
    {BlankLine, InvalidLine(0), InvalidLine(1)}
    \cup {JsonLine(v) : v \in Signals \cup NestedSignals}
    \cup {JsonLine(BareEvent("thread.started")), JsonLine(BareEvent("error"))}

\* The line as read, whitespace kept; the code does not do this.
TrimLineKeepsWhitespace(line) == line

\* line.trim()
TrimLine(line) == [line EXCEPT !.indent = 0]

\* Number of lines the child writes before it closes stdout.
MaxLines == 3

\* The exit statuses, and the text of ExitStatus in the generic message.
ExitStatuses == {"0", "1"}
StatusSuccess(code) == code = "0"
GenericMessage(code) == <<"codex exited with ", code>>

\* What the stderr reader collected.
StderrTexts == {<<>>, <<"boom">>}

\* Err(io::Error) of the line that is not JSON.
InvalidJsonError(number, trimmed) ==
    [ok |-> FALSE, error |-> "invalid_json", line_number |-> number, line |-> trimmed]
\* Err(io::Error) of a failed read_line, wait or join.
IoError(what) == [ok |-> FALSE, error |-> what]
\* Err(io::Error::other(message)) of a non-zero exit code.
ExitError(message) == [ok |-> FALSE, error |-> "exit", message |-> message]
\* Ok((response, resolved_session_id))
OkResult(text, session) == [ok |-> TRUE, text |-> text, session_id |-> session]

\* A failure_message that every error event replaces; the code does not do this.
FailureMessageAfterLast(failure, event) ==
    IF event.k = "obj" /\ GetStr(event.v, "type") = SomeString("error")
    THEN GetStr(event.v, "message")
    ELSE failure

\* The failure_message after the event: the message of the first error event
\* seen while none is kept.
FailureMessageAfter(failure, event) ==
    IF event.k = "obj" /\ GetStr(event.v, "type") = SomeString("error") /\ ~failure.some
    THEN GetStr(event.v, "message")
    ELSE failure

\* The resolved_session_id after the event: the thread_id of thread.started
\* while none is kept.
SessionAfter(session, event) ==
    IF /\ event.k = "obj" /\ GetStr(event.v, "type") = SomeString("thread.started")
       /\ ~session.some /\ GetStr(event.v, "thread_id").some
    THEN GetStr(event.v, "thread_id")
    ELSE session
\* A push condition that looks at the visible length only; the code does not
\* do this.
ShouldPushOnLength(before, after) ==
    /\ visible_len(after) # 0
    /\ visible_len(after) # visible_len(before)

\* The condition under which the visible text is pushed to the shared state.
ShouldPush(before, after) ==
    /\ visible_len(after) # 0
    /\ \/ visible_len(after) # visible_len(before)
       \/ has_deltas(after) # has_deltas(before)

\* A selection that prefers the error event's message to the stderr text; the
\* code does not do this.
FailureMessageEventFirst(stderr, failure, code) ==
    IF failure.some THEN failure.v
    ELSE IF stderr # <<>> THEN stderr
    ELSE GenericMessage(code)

\* The message of a non-zero exit code.
FailureMessage(stderr, failure, code) ==
    IF stderr # <<>> THEN stderr
    ELSE IF failure.some THEN failure.v
    ELSE GenericMessage(code)

\* The result chosen from the exit code after wait and join.
ExitOutcome(code, stderr, failure, buffers, session) ==
    IF ~StatusSuccess(code) THEN ExitError(FailureMessage(stderr, failure, code))
    ELSE OkResult(into_response(buffers), session)

----------------------------------------------------------------------------
\* The steps of the detailed call. The prompts of the application stand still.
promptVars == <<uiVars, sharedVars, workerVars, histVars>>

\* prompt_codex is entered with or without a prior session id (lines 126-131).
ExecCall ==
    /\ execPc = "idle"
    /\ \E session \in {NoString, SomeString("old")} :
          /\ prior_session_id' = session
          /\ resolved_session_id' = session
    /\ execPc' = "read"
    /\ UNCHANGED <<stdout_lines, line_number, accumulator, failure_message, pushed,
                   exit_status, stderr_text, outcome>>
    /\ UNCHANGED <<promptVars, launchVars, lockVars>>

\* One turn of the read loop on a line the child wrote (lines 133-191).
ExecReadLine ==
    /\ execPc = "read"
    /\ Len(stdout_lines) < MaxLines
    /\ \E line \in StdoutLines :
          LET trimmed == TrimLine(line)
              after == collect_response_text(trimmed.value, accumulator)
          IN  /\ stdout_lines' = Append(stdout_lines, line)
              /\ line_number' = line_number + 1
              /\ CASE trimmed.kind = "blank" ->
                        UNCHANGED <<execPc, accumulator, failure_message,
                                    resolved_session_id, pushed, outcome>>
                   [] trimmed.kind = "invalid" ->
                        /\ outcome' = InvalidJsonError(line_number', trimmed)
                        /\ execPc' = "returned"
                        /\ UNCHANGED <<accumulator, failure_message,
                                       resolved_session_id, pushed>>
                   [] OTHER ->
                        /\ failure_message' = FailureMessageAfter(failure_message,
                                                                  trimmed.value)
                        /\ resolved_session_id' = SessionAfter(resolved_session_id,
                                                               trimmed.value)
                        /\ IF ShouldPush(accumulator, after)
                           THEN /\ pushed' = Append(pushed, visible_text(after))
                                /\ accumulator' = AfterVisibleText(after)
                           ELSE /\ accumulator' = after
                                /\ UNCHANGED pushed
                        /\ UNCHANGED <<execPc, outcome>>
    /\ UNCHANGED <<prior_session_id, exit_status, stderr_text>>
    /\ UNCHANGED <<promptVars, launchVars, lockVars>>

\* read_line returns 0 (line 135): the loop ends.
ExecEof ==
    /\ execPc = "read"
    /\ execPc' = "wait"
    /\ UNCHANGED <<stdout_lines, line_number, accumulator, failure_message,
                   resolved_session_id, prior_session_id, pushed, exit_status,
                   stderr_text, outcome>>
    /\ UNCHANGED <<promptVars, launchVars, lockVars>>

\* read_line fails (line 135).
ExecReadFails ==
    /\ execPc = "read"
    /\ outcome' = IoError("read")
    /\ execPc' = "returned"
    /\ UNCHANGED <<stdout_lines, line_number, accumulator, failure_message,
                   resolved_session_id, prior_session_id, pushed, exit_status,
                   stderr_text>>
    /\ UNCHANGED <<promptVars, launchVars, lockVars>>

\* child.wait() fails (line 193).
ExecWaitFails ==
    /\ execPc = "wait"
    /\ outcome' = IoError("wait")
    /\ execPc' = "returned"
    /\ UNCHANGED <<stdout_lines, line_number, accumulator, failure_message,
                   resolved_session_id, prior_session_id, pushed, exit_status,
                   stderr_text>>
    /\ UNCHANGED <<promptVars, launchVars, lockVars>>

\* child.wait() returns the status and the stderr reader fails: its error is
\* returned (lines 193-199).
ExecJoinFails ==
    /\ execPc = "wait"
    /\ \E code \in ExitStatuses : exit_status' = code
    /\ outcome' = IoError("join")
    /\ execPc' = "returned"
    /\ UNCHANGED <<stdout_lines, line_number, accumulator, failure_message,
                   resolved_session_id, prior_session_id, pushed, stderr_text>>
    /\ UNCHANGED <<promptVars, launchVars, lockVars>>

\* child.wait() returns the status, the reader is joined and the result is
\* chosen (lines 193-222).
ExecExit ==
    /\ execPc = "wait"
    /\ \E code \in ExitStatuses, stderr \in StderrTexts :
          /\ exit_status' = code
          /\ stderr_text' = SomeString(stderr)
          /\ outcome' = ExitOutcome(code, stderr, failure_message, accumulator,
                                    resolved_session_id)
    /\ execPc' = "returned"
    /\ UNCHANGED <<stdout_lines, line_number, accumulator, failure_message,
                   resolved_session_id, prior_session_id, pushed>>
    /\ UNCHANGED <<promptVars, launchVars, lockVars>>

ExecNext ==
    \/ ExecCall
    \/ ExecReadLine \/ ExecEof \/ ExecReadFails
    \/ ExecWaitFails \/ ExecJoinFails \/ ExecExit

ExecSpec == Init /\ [][ExecNext]_vars

----------------------------------------------------------------------------
\* The launcher of the agent tool (prompt/codex.rs).

\* enum CodexLauncher
NodeLauncher(node, script) == [kind |-> "Node", node |-> node, script |-> script]
CmdLauncher(codex_cmd) == [kind |-> "Cmd", codex_cmd |-> codex_cmd]
DirectLauncher == [kind |-> "Direct"]

\* The path joined to the variable if the variable is set and the path exists.
Located(set, existing, name, path) ==
    IF name \in set /\ path \in existing THEN SomeString(path) ELSE NoString

codex_script_path(set, existing) ==
    Located(set, existing, "APPDATA", "APPDATA/npm/node_modules/@openai/codex/bin/codex.js")

node_path(set, existing) ==
    IF Located(set, existing, "APPDATA", "APPDATA/npm/node.exe").some
    THEN Located(set, existing, "APPDATA", "APPDATA/npm/node.exe")
    ELSE IF Located(set, existing, "ProgramFiles", "ProgramFiles/nodejs/node.exe").some
    THEN Located(set, existing, "ProgramFiles", "ProgramFiles/nodejs/node.exe")
    ELSE Located(set, existing, "LOCALAPPDATA", "LOCALAPPDATA/Programs/nodejs/node.exe")

codex_cmd_path(set, existing) ==
    Located(set, existing, "APPDATA", "APPDATA/npm/codex.cmd")

\* An argument list with "--json" ahead of the resume arguments; the code does
\* not do this.
AppendJsonFirst(cmd, prompt, session) ==
    [cmd EXCEPT !.args = @ \o <<"exec", "--json">>
                           \o (IF session.some THEN <<"resume", session.v>> ELSE <<>>)
                           \o <<prompt>>]

append_codex_args(cmd, prompt, session) ==
    [cmd EXCEPT !.args = @ \o <<"exec">>
                           \o (IF session.some THEN <<"resume", session.v>> ELSE <<>>)
                           \o <<"--json", prompt>>]

\* build_codex_command with the launcher codex_launcher returned.
build_codex_command(chosen, prompt, session) ==
    IF chosen.kind = "Node"
    THEN append_codex_args([program |-> chosen.node, args |-> <<chosen.script>>],
                           prompt, session)
    ELSE IF chosen.kind = "Cmd"
    THEN append_codex_args([program |-> "cmd.exe", args |-> <<"/C", chosen.codex_cmd>>],
                           prompt, session)
    ELSE append_codex_args([program |-> "codex", args |-> <<>>], prompt, session)

\* A thread enters build_codex_command.
LaunchCall(t) ==
    /\ launchPc[t] = "idle"
    /\ \E prompt \in {"hello world"}, session \in {NoString, SomeString("abc")} :
          call' = [call EXCEPT ![t] = [prompt |-> prompt, session_id |-> session]]
    /\ launchPc' = [launchPc EXCEPT ![t] = "get"]
    /\ UNCHANGED <<env_vars, files, CODEX_LAUNCHER, seen, launcher, command, initRuns>>
    /\ UNCHANGED <<promptVars, execVars, lockVars>>

\* A get_or_init that runs the closure although the cell is set; the code does
\* not do this.
GetOrInitAgain(t) ==
    /\ launchPc[t] = "get"
    /\ CODEX_LAUNCHER.state # "running"
    /\ CODEX_LAUNCHER' = [state |-> "running", by |-> t, value |-> NoLauncher]
    /\ initRuns' = initRuns + 1
    /\ launchPc' = [launchPc EXCEPT ![t] = "node"]
    /\ UNCHANGED launcher
    /\ UNCHANGED <<env_vars, files, call, seen, command>>
    /\ UNCHANGED <<promptVars, execVars, lockVars>>

\* OnceLock::get_or_init: the value if the cell is set; the closure is started
\* if the cell is empty; a caller that finds the closure running waits.
GetOrInit(t) ==
    /\ launchPc[t] = "get"
    /\ \/ /\ CODEX_LAUNCHER.state = "set"
          /\ launcher' = [launcher EXCEPT ![t] = CODEX_LAUNCHER.value]
          /\ launchPc' = [launchPc EXCEPT ![t] = "build"]
          /\ UNCHANGED <<CODEX_LAUNCHER, initRuns>>
       \/ /\ CODEX_LAUNCHER.state = "empty"
          /\ CODEX_LAUNCHER' = [state |-> "running", by |-> t, value |-> NoLauncher]
          /\ initRuns' = initRuns + 1
          /\ launchPc' = [launchPc EXCEPT ![t] = "node"]
          /\ UNCHANGED launcher
    /\ UNCHANGED <<env_vars, files, call, seen, command>>
    /\ UNCHANGED <<promptVars, execVars, lockVars>>

\* The closure, line 77: node_path()
ProbeNode(t) ==
    /\ launchPc[t] = "node"
    /\ seen' = [seen EXCEPT ![t].node = node_path(env_vars, files)]
    /\ launchPc' = [launchPc EXCEPT ![t] = "script"]
    /\ UNCHANGED <<env_vars, files, CODEX_LAUNCHER, call, launcher, command, initRuns>>
    /\ UNCHANGED <<promptVars, execVars, lockVars>>

\* The closure, lines 77-79: codex_script_path(); with both paths the cell is
\* set to Node and get_or_init returns.
ProbeScript(t) ==
    /\ launchPc[t] = "script"
    /\ seen' = [seen EXCEPT ![t].script = codex_script_path(env_vars, files)]
    /\ IF seen'[t].node.some /\ seen'[t].script.some
       THEN /\ CODEX_LAUNCHER' = [state |-> "set", by |-> t,
                                  value |-> NodeLauncher(seen'[t].node.v, seen'[t].script.v)]
            /\ launcher' = [launcher EXCEPT ![t] = CODEX_LAUNCHER'.value]
            /\ launchPc' = [launchPc EXCEPT ![t] = "build"]
       ELSE /\ launchPc' = [launchPc EXCEPT ![t] = "cmd"]
            /\ UNCHANGED <<CODEX_LAUNCHER, launcher>>
    /\ UNCHANGED <<env_vars, files, call, command, initRuns>>
    /\ UNCHANGED <<promptVars, execVars, lockVars>>

\* The closure, lines 80-83: codex_cmd_path(); the cell is set to Cmd or Direct
\* and get_or_init returns.
ProbeCmd(t) ==
    /\ launchPc[t] = "cmd"
    /\ LET codex_cmd == codex_cmd_path(env_vars, files)
       IN  CODEX_LAUNCHER' = [state |-> "set", by |-> t,
                              value |-> IF codex_cmd.some THEN CmdLauncher(codex_cmd.v)
                                        ELSE DirectLauncher]
    /\ launcher' = [launcher EXCEPT ![t] = CODEX_LAUNCHER'.value]
    /\ launchPc' = [launchPc EXCEPT ![t] = "build"]
    /\ UNCHANGED <<env_vars, files, call, seen, command, initRuns>>
    /\ UNCHANGED <<promptVars, execVars, lockVars>>

\* The match of build_codex_command on the launcher (lines 13-32).
Build(t) ==
    /\ launchPc[t] = "build"
    /\ command' = [command EXCEPT ![t] =
                      build_codex_command(launcher[t], call[t].prompt, call[t].session_id)]
    /\ launchPc' = [launchPc EXCEPT ![t] = "done"]
    /\ UNCHANGED <<env_vars, files, CODEX_LAUNCHER, call, seen, launcher, initRuns>>
    /\ UNCHANGED <<promptVars, execVars, lockVars>>

\* The environment outside the process: a variable is set or unset.
SetEnvVar ==
    /\ \E name \in {"APPDATA", "ProgramFiles", "LOCALAPPDATA"} :
          env_vars' = IF name \in env_vars THEN env_vars \ {name} ELSE env_vars \cup {name}
    /\ UNCHANGED <<files, CODEX_LAUNCHER, launchPc, call, seen, launcher, command, initRuns>>
    /\ UNCHANGED <<promptVars, execVars, lockVars>>

\* A path is created or removed.
ChangeFile ==
    /\ \E path \in {"APPDATA/npm/node.exe", "ProgramFiles/nodejs/node.exe",
                     "LOCALAPPDATA/Programs/nodejs/node.exe",
                     "APPDATA/npm/node_modules/@openai/codex/bin/codex.js",
                     "APPDATA/npm/codex.cmd"} :
          files' = IF path \in files THEN files \ {path} ELSE files \cup {path}
    /\ UNCHANGED <<env_vars, CODEX_LAUNCHER, launchPc, call, seen, launcher, command, initRuns>>
    /\ UNCHANGED <<promptVars, execVars, lockVars>>

LaunchNext ==
    \/ \E t \in Callers :
          \/ LaunchCall(t) \/ GetOrInit(t)
          \/ ProbeNode(t) \/ ProbeScript(t) \/ ProbeCmd(t)
          \/ Build(t)
    \/ SetEnvVar \/ ChangeFile

LaunchSpec == Init /\ [][LaunchNext]_vars

----------------------------------------------------------------------------
\* The critical sections of the two mutexes, running_prompt and shared_stream,
\* and the blocking operations around them. Each thread runs a program: the
\* instructions of its code that lock, unlock, block or work, in program order.

\* One instruction: what it does, on what, and the instructions that can follow.
Instr(op, arg, next) == [op |-> op, arg |-> arg, next |-> next]
Ended == -1

\* The UI thread: poll and the handlers it calls, one at a time, forever.
UiProgram == <<
    \* 1: between two handlers
    Instr("work", "idle", {2, 7, 15, 19, 24}),
    \* 2-6: submit (app/events.rs, lines 48-61)
    Instr("work", "store flag", {3}),
    Instr("lock", "shared_stream", {4}),
    Instr("work", "stream.start", {5}),
    Instr("unlock", "shared_stream", {6}),
    Instr("spawn", "worker", {1}),
    \* 7-14: cancel_active_prompt (lines 86-113); it returns at 9 without a record
    Instr("lock", "running_prompt", {8}),
    Instr("work", "active.take", {9}),
    Instr("unlock", "running_prompt", {1, 10}),
    Instr("work", "store flag", {11}),
    Instr("lock", "shared_stream", {12}),
    Instr("work", "stream.clear", {13}),
    Instr("unlock", "shared_stream", {14}),
    Instr("spawn", "kill", {1}),
    \* 15-18: handle_event, PromptStream (lines 125-142); it returns at 15 for
    \* an id that is not active
    Instr("work", "store flag", {1, 16}),
    Instr("lock", "shared_stream", {17}),
    Instr("work", "copy text", {18}),
    Instr("unlock", "shared_stream", {1}),
    \* 19-23: handle_event, Prompt (lines 151-188); it returns at 19 for an id
    \* that is not active
    Instr("work", "match id", {1, 20}),
    Instr("work", "store flag", {21}),
    Instr("lock", "shared_stream", {22}),
    Instr("work", "stream.clear", {23}),
    Instr("unlock", "shared_stream", {1}),
    \* 24-27: clear_session (app/mod.rs, lines 136-143)
    Instr("work", "store flag", {25}),
    Instr("lock", "shared_stream", {26}),
    Instr("work", "reset stream", {27}),
    Instr("unlock", "shared_stream", {1}) >>

\* A worker that sends the wake before it releases shared_stream; the code
\* does not do this.
WorkerProgramSendsUnderLock == <<
    Instr("work", "spawn child", {2, 18}),
    Instr("lock", "running_prompt", {3}),
    Instr("work", "publish", {4}),
    Instr("unlock", "running_prompt", {5}),
    Instr("work", "take pipes", {6, 14}),
    Instr("block", "read_line", {7, 12, 14}),
    Instr("work", "collect", {6, 8, 14}),
    Instr("lock", "shared_stream", {9}),
    Instr("work", "stream.update", {10}),
    Instr("block", "send", {11}),
    Instr("unlock", "shared_stream", {6}),
    Instr("block", "wait", {13, 14}),
    Instr("block", "join", {14}),
    Instr("lock", "running_prompt", {15}),
    Instr("work", "clear record", {16}),
    Instr("unlock", "running_prompt", {17}),
    Instr("block", "kill, wait, join", {18}),
    Instr("block", "send", {Ended}) >>

\* A worker thread: prompt_codex and the send of its result.
WorkerProgram == <<
    \* 1: Command::spawn (prompt/execution.rs, lines 67-72); an error returns
    Instr("work", "spawn child", {2, 18}),
    \* 2-4: the record is published (lines 77-83)
    Instr("lock", "running_prompt", {3}),
    Instr("work", "publish", {4}),
    Instr("unlock", "running_prompt", {5}),
    \* 5: the pipes are taken, the stderr reader is started (lines 89-124)
    Instr("work", "take pipes", {6, 14}),
    \* 6-11: the read loop (lines 133-191): a line, end of stream, or an error
    Instr("block", "read_line", {7, 12, 14}),
    Instr("work", "collect", {6, 8, 14}),
    Instr("lock", "shared_stream", {9}),
    Instr("work", "stream.update", {10}),
    Instr("unlock", "shared_stream", {6, 11}),
    Instr("block", "send", {6}),
    \* 12-13: child.wait and the join of the stderr reader (lines 193-199)
    Instr("block", "wait", {13, 14}),
    Instr("block", "join", {14}),
    \* 14-16: RunningPromptGuard is dropped (prompt/state.rs, lines 57-61, 96-101)
    Instr("lock", "running_prompt", {15}),
    Instr("work", "clear record", {16}),
    Instr("unlock", "running_prompt", {17}),
    \* 17: PromptProcessGuard is dropped (prompt/state.rs, lines 68-94)
    Instr("block", "kill, wait, join", {18}),
    \* 18: the result is sent (app/events.rs, lines 78-81)
    Instr("block", "send", {Ended}) >>

Program(th) ==
    IF th[1] = "ui" THEN UiProgram
    ELSE IF th[1] = "worker" THEN WorkerProgram
    \* the thread cancel starts: kill_prompt_process (prompt/execution.rs, 224-233)
    ELSE << Instr("block", "taskkill", {Ended}) >>

Running(th) == threadPc[th] >= 1
Current(th) == Program(th)[threadPc[th]]

\* Mutex::lock returns once the mutex is free.
Acquire(th) ==
    /\ Running(th) /\ Current(th).op = "lock"
    /\ mutex[Current(th).arg] = Free
    /\ mutex' = [mutex EXCEPT ![Current(th).arg] = th]
    /\ \E n \in Current(th).next : threadPc' = [threadPc EXCEPT ![th] = n]
    /\ UNCHANGED <<promptVars, execVars, launchVars>>

\* The MutexGuard goes out of scope.
Release(th) ==
    /\ Running(th) /\ Current(th).op = "unlock"
    /\ mutex' = [mutex EXCEPT ![Current(th).arg] = Free]
    /\ \E n \in Current(th).next : threadPc' = [threadPc EXCEPT ![th] = n]
    /\ UNCHANGED <<promptVars, execVars, launchVars>>

\* Code that neither locks nor blocks, and the branch it ends with.
Work(th) ==
    /\ Running(th) /\ Current(th).op = "work"
    /\ \E n \in Current(th).next : threadPc' = [threadPc EXCEPT ![th] = n]
    /\ UNCHANGED mutex
    /\ UNCHANGED <<promptVars, execVars, launchVars>>

\* A blocking operation returns.
Block(th) ==
    /\ Running(th) /\ Current(th).op = "block"
    /\ \E n \in Current(th).next : threadPc' = [threadPc EXCEPT ![th] = n]
    /\ UNCHANGED mutex
    /\ UNCHANGED <<promptVars, execVars, launchVars>>

\* thread::spawn: the next thread of the kind starts; threads beyond the
\* prompts of the run are not followed.
SpawnThread(th) ==
    /\ Running(th) /\ Current(th).op = "spawn"
    /\ LET unborn == {w \in PromptIds : threadPc[<<Current(th).arg, w>>] = 0}
       IN  \E n \in Current(th).next :
              threadPc' = [x \in Threads |->
                  IF x = th THEN n
                  ELSE IF unborn # {} /\ x[1] = Current(th).arg
                          /\ x[2] = CHOOSE w \in unborn : \A v \in unborn : w <= v
                       THEN 1
                       ELSE threadPc[x]]
    /\ UNCHANGED mutex
    /\ UNCHANGED <<promptVars, execVars, launchVars>>

LockNext ==
    \E th \in Threads :
        \/ Acquire(th) \/ Release(th) \/ Work(th) \/ Block(th) \/ SpawnThread(th)

LockSpec == Init /\ [][LockNext]_vars

----------------------------------------------------------------------------
\* Properties.

\* prompt_codex has returned or unwound: both guards are dropped.
Returned(w) == pc[w] \in {"returned", "done"}

\* The worker of w is inside prompt_codex.
InPromptCodex(w) ==
    pc[w] \in {"spawn", "publish", "pipes", "read", "update", "swap", "send", "wait",
               "join", "drop_running", "drop_process"}

\* cancel_active_prompt took the record of w and has returned.
CancelReturned(w) ==
    /\ w \in cancelled
    /\ ~(uiPc \in {"cancel_flag", "cancel_clear"} /\ uiArg = w)

\* C1: once prompt_codex has returned or unwound after a successful spawn, on
\* whatever path, the child is reaped, the stderr reader, if it was started, is
\* joined, and the process guard holds nothing.
C1_ReapedAndJoinedOnReturn ==
    \A w \in PromptIds :
        (Returned(w) /\ child[w] # "none") =>
            /\ child[w] = "reaped"
            /\ stderrReader[w] # "running"
            /\ process[w] = [child |-> FALSE, stderr_handle |-> FALSE]

\* An error return whose guard found the child alive and killed it, the reader
\* joined by the guard.
C1_Witness ==
    \E w \in PromptIds :
        /\ pc[w] = "returned" /\ result[w] = "err"
        /\ w \in guardKilled
        /\ child[w] = "reaped" /\ stderrReader[w] = "joined"

\* C2: when cancel took the record of id, then at its return the slot is empty,
\* no prompt is active, the app is not busy and the shared stream state is
\* cleared; every update(id, _) after that return is refused and changes
\* nothing, and an update(id, _) of an execution that is active and was not
\* cancelled is accepted.
C2_CancelClearsAtOnce ==
    [][ /\ (uiPc = "cancel_clear" /\ uiPc' = "idle") =>
              /\ running_prompt' = NoRunningPrompt
              /\ active_prompt_id' = None /\ ~busy' /\ ~locked'
              /\ shared_stream' = [prompt_id |-> None, text |-> <<>>]
        /\ \A w \in PromptIds :
              (pc[w] = "update" /\ pc'[w] # "update") =>
                  /\ CancelReturned(w) =>
                        (updated'[w] = "refused" /\ shared_stream' = shared_stream)
                  /\ (w \notin cancelled /\ active_prompt_id = w) =>
                        updated'[w] = "accepted"
      ]_vars

\* An update of a cancelled execution was refused.
C2_Witness ==
    \E w \in PromptIds : w \in cancelled /\ updated[w] = "refused" /\ uiPc = "idle"

\* The chars of text all come from execution j.
TextOf(j, text) == \A i \in 1..Len(text) : text[i] \in {Char(j), AltChar(j)}

\* C3: whenever the active id of the shared stream state is j, the shared text
\* is empty or made of text execution j pushed; with no active id it is empty.
C3_TextBelongsToActive ==
    IF shared_stream.prompt_id = None
    THEN shared_stream.text = <<>>
    ELSE TextOf(shared_stream.prompt_id, shared_stream.text)

\* An older execution's update was refused while a newer one had text in the
\* shared state.
C3_Witness ==
    \E w \in PromptIds :
        /\ updated[w] = "refused"
        /\ shared_stream.prompt_id \notin {None, w}
        /\ shared_stream.text # <<>>

\* C4: update(id, text) with id not the active id (or none active) returns
\* false and leaves the stored text and the active id as they were.
C4_UpdateRefusedLeavesState ==
    [][ \A w \in PromptIds :
            (pc[w] = "update" /\ pc'[w] # "update" /\ shared_stream.prompt_id # w) =>
                (updated'[w] = "refused" /\ shared_stream' = shared_stream)
      ]_vars

\* An update was refused while no id was active.
C4_Witness ==
    \E w \in PromptIds :
        /\ updated[w] = "refused" /\ pc[w] = "read"
        /\ shared_stream = [prompt_id |-> None, text |-> <<>>]

\* C5: the record of an execution is removed from the slot once, by its own
\* guard or by cancel; the guard of an execution removes no record but its own;
\* cancel goes on past the take only when it found a record, and kill threads
\* exist only for records cancel took.
C5_RecordRemovedOnce ==
    /\ [](\A w \in PromptIds :
            /\ removals[w] <= 1
            /\ (Returned(w) /\ child[w] # "none") => removals[w] = 1)
    /\ [](killThreads \subseteq cancelled)
    /\ [][ /\ \A w \in PromptIds :
                (pc[w] = "drop_running" /\ pc'[w] # "drop_running") =>
                    (running_prompt' = running_prompt \/ running_prompt.id = w)
           /\ (uiPc = "idle" /\ uiPc' = "cancel_flag") =>
                    running_prompt # NoRunningPrompt
         ]_vars

\* The guard of a cancelled execution ran and left the record of a newer
\* execution in the slot.
C5_Witness ==
    \E w \in PromptIds :
        /\ w \in cancelled /\ pc[w] = "drop_process" /\ removals[w] = 1
        /\ running_prompt # NoRunningPrompt /\ running_prompt.id # w

\* C6: if the slot holds a record {id, pid}, the worker of id has not yet seen
\* the child exit: wait has not returned and the child is not reaped.
C6_SlotImpliesProcessAlive ==
    running_prompt # NoRunningPrompt =>
        child[running_prompt.id] \in {"running", "exited"}

\* The worker of w is inside prompt_codex with a spawned child not yet reaped.
Executing(w) == InPromptCodex(w) /\ child[w] \in {"running", "exited"}

\* C7 as stated: never two workers inside prompt_codex, each with its own
\* spawned and not yet reaped child.
C7_AtMostOneExecuting ==
    Cardinality({w \in PromptIds : Executing(w)}) <= 1

\* C7 as amended: at most one execution whose record cancel has not taken is
\* inside prompt_codex, and it is the active prompt of a busy app.
C7_AtMostOneNotCancelled ==
    /\ Cardinality({w \in PromptIds : InPromptCodex(w) /\ w \notin cancelled}) <= 1
    /\ \A w \in PromptIds :
          (InPromptCodex(w) /\ w \notin cancelled) => (busy /\ active_prompt_id = w)

\* A cancelled execution and a newer one, both with a live child.
C7_Witness ==
    \E w1, w2 \in PromptIds :
        /\ w1 # w2 /\ Executing(w1) /\ Executing(w2)
        /\ w1 \in cancelled /\ w2 \notin cancelled

\* The PromptStream events sent and not yet taken by the consumer.
Wakes == {i \in DOMAIN chan : chan[i].type = "PromptStream"}

\* C8: at most one stream wake is sent and not yet processed.
C8_AtMostOneWake == Cardinality(Wakes) <= 1

\* A wake for j is in the channel, is about to be sent, or is being handled.
WakeOutstanding(j) ==
    \/ \E i \in Wakes : chan[i].id = j
    \/ pc[j] = "send"
    \/ pc[j] = "swap" /\ ~stream_notification_pending
    \/ uiPc = "stream_copy" /\ uiArg = j

\* C9: whenever the shared text of the active execution is newer than what the
\* consumer copied, a wake for that execution is outstanding.
C9_NoLostUpdate ==
    \A j \in PromptIds :
        ( /\ active_prompt_id = j
          /\ shared_stream.prompt_id = j
          /\ shared_stream.text # output ) => WakeOutstanding(j)

\* C10: every accepted submit ends its busy period: the worker of each
\* submitted prompt sends its one Prompt event in the end, and a busy app
\* becomes not busy in the end.
C10_BusyPeriodEnds ==
    /\ \A w \in PromptIds : (pc[w] = "spawn") ~> (resultsSent[w] = 1)
    /\ busy ~> ~busy

----------------------------------------------------------------------------
\* Properties of one call of prompt_codex in detail.

\* wait() returned a status.
Exited == execPc = "returned" /\ exit_status # "none"
\* wait() returned a status and the stderr reader was joined without error.
ExitedAndJoined == Exited /\ stderr_text.some
\* Some line read so far is an error event at top level.
ErrorEventSeen ==
    \E i \in 1..Len(stdout_lines) :
        /\ stdout_lines[i].kind = "json"
        /\ GetStr(stdout_lines[i].value.v, "type") = SomeString("error")

\* C11: when every stdout line parsed and the process exited with status 0,
\* prompt_codex returns Ok with the accumulator's into_response() text and the
\* resolved session id, whatever stderr text or error events were seen.
C11_ZeroExitSucceeds ==
    (Exited /\ StatusSuccess(exit_status))
        => outcome = OkResult(into_response(accumulator), resolved_session_id)

\* The same once the stderr reader was joined without error.
C11_ZeroExitSucceedsAfterJoin ==
    (ExitedAndJoined /\ StatusSuccess(exit_status))
        => outcome = OkResult(into_response(accumulator), resolved_session_id)

\* Scenario A: thread.started(abc), then output_text "a", status 0.
C11_ScenarioA ==
    (/\ ExitedAndJoined /\ StatusSuccess(exit_status)
     /\ prior_session_id = NoString
     /\ stdout_lines = <<JsonLine(ThreadStartedEvent("abc")),
                         JsonLine(OutputTextEvent(<<"a">>))>>)
        => outcome = OkResult(<<"a">>, SomeString("abc"))

\* Status 0 with stderr text and an error event seen: the result is Ok.
C11_Witness ==
    /\ ExitedAndJoined /\ StatusSuccess(exit_status)
    /\ stderr_text = SomeString(<<"boom">>)
    /\ ErrorEventSeen
    /\ outcome.ok

\* The thread_id of the first thread.started event at top level that carries
\* one, if there is one among the lines.
RECURSIVE FirstThreadId(_)
FirstThreadId(lines) ==
    IF lines = <<>> THEN NoString
    ELSE IF /\ Head(lines).kind = "json"
            /\ GetStr(Head(lines).value.v, "type") = SomeString("thread.started")
            /\ GetStr(Head(lines).value.v, "thread_id").some
         THEN GetStr(Head(lines).value.v, "thread_id")
         ELSE FirstThreadId(Tail(lines))

\* C12: the session id returned on success is the thread_id of the first
\* thread.started event of the execution that carries one, also when the
\* execution was started with a prior session id.
C12_FirstThreadStartedWins ==
    (Exited /\ outcome.ok /\ FirstThreadId(stdout_lines).some)
        => outcome.session_id = FirstThreadId(stdout_lines)

\* The same for an execution started without a prior session id.
C12_FirstThreadStartedWinsWhenFresh ==
    (Exited /\ outcome.ok /\ FirstThreadId(stdout_lines).some
     /\ prior_session_id = NoString)
        => outcome.session_id = FirstThreadId(stdout_lines)

\* A resumed execution returns the prior session id.
C12_ResumeKeepsPrior ==
    (Exited /\ outcome.ok /\ prior_session_id.some)
        => outcome.session_id = prior_session_id

\* Two thread.started events with different ids, the first one returned.
C12_Witness ==
    /\ Exited /\ outcome.ok
    /\ prior_session_id = NoString
    /\ Len(stdout_lines) >= 2
    /\ stdout_lines[1] = JsonLine(ThreadStartedEvent("abc"))
    /\ stdout_lines[2] = JsonLine(ThreadStartedEvent("xyz"))
    /\ outcome.session_id = SomeString("abc")

C13_WitnessEventMessage ==
    /\ ExitedAndJoined /\ ~StatusSuccess(exit_status)
    /\ stderr_text = SomeString(<<>>)
    /\ outcome = ExitError(<<"m1">>)

C13_WitnessGeneric ==
    /\ ExitedAndJoined /\ ~StatusSuccess(exit_status)
    /\ outcome = ExitError(GenericMessage("1"))

\* prompt_codex returned the error of a line that is not JSON.
InvalidJsonReturned ==
    execPc = "returned" /\ ~outcome.ok /\ outcome.error = "invalid_json"
\* The last line read.
LastLine == stdout_lines[Len(stdout_lines)]

IsErrorLine(line) ==
    line.kind = "json" /\ GetStr(line.value.v, "type") = SomeString("error")

\* The message of the first error event at top level that carries one.
RECURSIVE FirstErrorMessage(_)
FirstErrorMessage(lines) ==
    IF lines = <<>> THEN NoString
    ELSE IF IsErrorLine(Head(lines)) /\ GetStr(Head(lines).value.v, "message").some
         THEN GetStr(Head(lines).value.v, "message")
         ELSE FirstErrorMessage(Tail(lines))

\* Every JSON line of lines folded into buffers, in order.
RECURSIVE FoldLines(_, _)
FoldLines(lines, buffers) ==
    IF lines = <<>> THEN buffers
    ELSE FoldLines(Tail(lines),
                   IF Head(lines).kind = "json"
                   THEN collect_response_text(Head(lines).value, buffers)
                   ELSE buffers)

\* The channels of two accumulators are the same (the display cache apart).
SameChannels(a, b) ==
    /\ a.reasoning = b.reasoning /\ a.joined_fragments = b.joined_fragments
    /\ a.last_fragment_start = b.last_fragment_start
    /\ a.deltas = b.deltas /\ a.content_start = b.content_start

EffectOf(event) ==
    [channels |-> [collect_response_text(event, accumulator) EXCEPT
                      !.display = <<>>, !.display_dirty = FALSE],
     failure |-> FailureMessageAfter(failure_message, event),
     session |-> SessionAfter(resolved_session_id, event)]

ContainerKeySet == {ContainerKeys[i] : i \in DOMAIN ContainerKeys}

\* C16: every signal has the same effect inside a container field of another
\* object, alone or in an array, as at top level.
C16_NestedSameAsTopLevel ==
    execPc = "read" =>
        \A signal \in Signals, key \in ContainerKeySet :
            /\ EffectOf(Nested(key, signal)) = EffectOf(signal)
            /\ EffectOf(NestedInArray(key, signal)) = EffectOf(signal)

\* The signals that carry text: fragments, deltas and reasoning.
TextSignals ==
    {signal \in Signals : GetStr(signal.v, "type").v \notin {"thread.started", "error"}}

\* The same for the signals that carry text, two levels deep as well.
C16_TextSignalsNested ==
    execPc = "read" =>
        \A signal \in TextSignals, key \in ContainerKeySet :
            /\ EffectOf(Nested(key, signal)) = EffectOf(signal)
            /\ EffectOf(NestedInArray(key, signal)) = EffectOf(signal)
            /\ EffectOf(Nested("item", NestedInArray(key, signal))) = EffectOf(signal)

\* A nested thread.started or error event leaves the session id and the
\* failure message as they were.
C16_NestedSessionAndErrorIgnored ==
    execPc = "read" =>
        \A signal \in Signals \ TextSignals, key \in ContainerKeySet :
            /\ EffectOf(Nested(key, signal)).session = resolved_session_id
            /\ EffectOf(Nested(key, signal)).failure = failure_message

\* The first delta behind reasoning text is due: reasoning was written and no
\* delta has followed it.
SeparatorDue(self) == self.reasoning # <<>> /\ self.content_start = Len(self.deltas)

\* C17: a delta D that is empty or already a suffix of the raw delta stream
\* leaves visible_text() as it is. Any other D is appended to the raw stream,
\* behind a blank-line separator when it is the first delta after reasoning
\* text, and visible_text() is then the raw stream; it is the text before with
\* D appended when the raw stream was the visible text before and no separator
\* was due.
C17_DeltaAppends ==
    execPc = "read" =>
        \A D \in PushTexts :
            LET before == accumulator
                after == push_delta(accumulator, D)
                separator == IF ~SeparatorDue(before) THEN <<>>
                             ELSE IF EndsWith(before.deltas, <<NL>>) THEN <<NL>>
                             ELSE <<NL, NL>>
            IN  IF D = <<>> \/ EndsWith(before.deltas, D)
                THEN after = before /\ visible_text(after) = visible_text(before)
                ELSE /\ after.deltas = before.deltas \o separator \o D
                     /\ visible_text(after) = after.deltas
                     /\ (separator = <<>> /\ visible_text(before) = before.deltas)
                            => visible_text(after) = visible_text(before) \o D

\* C17 as worded: D that is not a suffix is appended to the visible text.
C17_DeltaMonotonicity ==
    execPc = "read" =>
        \A D \in PushTexts :
            IF EndsWith(accumulator.deltas, D)
            THEN visible_text(push_delta(accumulator, D)) = visible_text(accumulator)
            ELSE visible_text(push_delta(accumulator, D)) = visible_text(accumulator) \o D

\* Reasoning text, then the first delta behind the separator, then a second
\* delta appended directly.
C17_Witness ==
    /\ stdout_lines = <<JsonLine(ReasoningEvent(<<"t">>)), JsonLine(DeltaEvent(<<"a">>)),
                        JsonLine(DeltaEvent(<<"b">>))>>
    /\ accumulator.deltas = <<RS, "t", ".", ".", ".", NL, NL, "a", "b">>
    /\ visible_text(accumulator) = accumulator.deltas

\* A fragment is visible and the first delta replaces it.
C17_WitnessFragmentHidden ==
    /\ execPc = "read"
    /\ accumulator.deltas = <<>> /\ accumulator.joined_fragments = <<"a">>
    /\ visible_text(push_delta(accumulator, <<"b">>)) = <<"b">>

\* C18: two or three consecutive push_fragment(X) leave the joined fragments,
\* the visible length and the visible text that one push_fragment(X) leaves,
\* and X that is empty or only whitespace changes nothing.
C18_FragmentDedupIdempotent ==
    execPc = "read" =>
        \A X \in PushTexts :
            LET once == push_fragment(accumulator, X)
                twice == push_fragment(once, X)
                thrice == push_fragment(twice, X)
            IN  /\ twice = once /\ thrice = once
                /\ twice.joined_fragments = once.joined_fragments
                /\ visible_len(twice) = visible_len(once)
                /\ visible_text(twice) = visible_text(once)
                /\ Trim(X) = <<>> => once = accumulator

\* The same fragment arrived twice behind an agent fragment and is there once.
C18_Witness ==
    /\ stdout_lines = <<JsonLine(TextEvent("agent_message", <<"t", NL, "u">>)),
                        JsonLine(OutputTextEvent(<<"a">>)),
                        JsonLine(OutputTextEvent(<<"a">>))>>
    /\ accumulator.joined_fragments = <<US, "t", NL, US, "u", NL, NL, "a">>
    /\ pushed = <<<<US, "t", NL, US, "u">>, accumulator.joined_fragments>>

\* The call returned Ok after reading exactly these lines.
ReturnedOkAfter(lines) ==
    ExitedAndJoined /\ StatusSuccess(exit_status) /\ stdout_lines = lines

\* Single-line texts without markup.
PlainTexts == {<<"a">>, <<"b">>, <<"a", "b">>}

\* C19: reasoning text T and then the fragment A give, from a fresh
\* accumulator, the tagged reasoning line, a blank line and A; the reasoning
\* line is T with the ellipsis marker when T arrived through push_reasoning and
\* T itself when it arrived through push_reasoning_delta.
C19_ReasoningThenAnswer ==
    /\ ReturnedOkAfter(<<JsonLine(ReasoningEvent(<<"t">>)),
                         JsonLine(OutputTextEvent(<<"a">>))>>)
          => outcome.text = <<RS, "t", ".", ".", ".", NL, NL, "a">>
    /\ ReturnedOkAfter(<<JsonLine(ReasoningDeltaEvent(<<"t">>)),
                         JsonLine(OutputTextEvent(<<"a">>))>>)
          => outcome.text = <<RS, "t", NL, NL, "a">>
    /\ execPc = "read" =>
          \A T \in PlainTexts, A \in PlainTexts :
              /\ into_response(push_fragment(push_reasoning(DefaultBuffers, T), A))
                    = <<RS>> \o T \o <<".", ".", ".">> \o <<NL, NL>> \o A
              /\ into_response(push_fragment(push_reasoning_delta(DefaultBuffers, T), A))
                    = <<RS>> \o T \o <<NL, NL>> \o A

\* C19 as worded: the result of the delta route is the result of the full-text
\* route.
C19_SameByBothRoutes ==
    ReturnedOkAfter(<<JsonLine(ReasoningDeltaEvent(<<"t">>)),
                      JsonLine(OutputTextEvent(<<"a">>))>>)
        => outcome.text =
              into_response(FoldLines(<<JsonLine(ReasoningEvent(<<"t">>)),
                                        JsonLine(OutputTextEvent(<<"a">>))>>,
                                      DefaultBuffers))

\* The full-text route has returned.
C19_Witness ==
    /\ ReturnedOkAfter(<<JsonLine(ReasoningEvent(<<"t">>)),
                         JsonLine(OutputTextEvent(<<"a">>))>>)
    /\ outcome.text = <<RS, "t", ".", ".", ".", NL, NL, "a">>

\* The delta route has returned.
C19_WitnessDelta ==
    /\ ReturnedOkAfter(<<JsonLine(ReasoningDeltaEvent(<<"t">>)),
                         JsonLine(OutputTextEvent(<<"a">>))>>)
    /\ outcome.text = <<RS, "t", NL, NL, "a">>

\* Both channels of before are prefixes of the channels of after.
ChannelsExtended(before, after) ==
    /\ StartsWith(after.joined_fragments, before.joined_fragments)
    /\ StartsWith(after.deltas, before.deltas)

\* C20: every push operation, on every accumulator the execution reaches,
\* leaves the joined fragments and the raw delta stream it found as prefixes of
\* what it leaves, and so does every turn of the read loop.
C20_ChannelsAppendOnly ==
    /\ [](execPc = "read" =>
            \A X \in PushTexts :
                /\ ChannelsExtended(accumulator, push_fragment(accumulator, X))
                /\ ChannelsExtended(accumulator, push_agent_fragment(accumulator, X))
                /\ ChannelsExtended(accumulator, push_delta(accumulator, X))
                /\ ChannelsExtended(accumulator, push_reasoning(accumulator, X))
                /\ ChannelsExtended(accumulator, push_reasoning_delta(accumulator, X)))
    /\ [][ChannelsExtended(accumulator, accumulator')]_vars

\* Both channels were written and then extended.
C20_Witness ==
    /\ stdout_lines = <<JsonLine(OutputTextEvent(<<"a">>)), JsonLine(DeltaEvent(<<"a">>)),
                        JsonLine(ReasoningEvent(<<"t">>))>>
    /\ accumulator.joined_fragments = <<"a">>
    /\ accumulator.deltas = <<"a", NL, RS, "t", ".", ".", ".", NL>>

----------------------------------------------------------------------------
\* Properties of the paragraphs of the joined fragments.

\* The number of chars before the first blank line ("\n\n") of s, or -1.
RECURSIVE FindBreak(_)
FindBreak(s) ==
    IF Len(s) < 2 THEN -1
    ELSE IF s[1] = NL /\ s[2] = NL THEN 0
    ELSE LET rest == FindBreak(Tail(s)) IN IF rest < 0 THEN -1 ELSE rest + 1

\* The paragraphs of s: the texts between its blank lines.
RECURSIVE Paragraphs(_)
Paragraphs(s) ==
    LET at == FindBreak(s)
    IN  IF at < 0 THEN <<s>>
        ELSE <<SubSeq(s, 1, at)>> \o Paragraphs(Suffix(s, at + 2))

\* No text is a paragraph of s twice.
NoDuplicateParagraph(s) ==
    \A i, j \in DOMAIN Paragraphs(s) :
        (i # j /\ Paragraphs(s)[i] # <<>>) => Paragraphs(s)[i] # Paragraphs(s)[j]

\* No text is a paragraph of s twice in a row.
NoAdjacentDuplicate(s) ==
    \A i \in DOMAIN Paragraphs(s) :
        (i > 1 /\ Paragraphs(s)[i] # <<>>) => Paragraphs(s)[i] # Paragraphs(s)[i - 1]

\* C21: after any sequence of fragments and agent fragments, every fragment
\* text is a paragraph of the joined fragments, and of the final response, at
\* most once.
C21_NoDuplicateParagraph ==
    /\ NoDuplicateParagraph(accumulator.joined_fragments)
    /\ (ExitedAndJoined /\ outcome.ok /\ accumulator.reasoning = <<>>
        /\ accumulator.joined_fragments # <<>>)
          => NoDuplicateParagraph(outcome.text)

\* What the comparison with the last fragment gives: no paragraph twice in a row.
C21_NoAdjacentDuplicateParagraph ==
    NoAdjacentDuplicate(accumulator.joined_fragments)

\* The fragment a, an agent fragment and the fragment a again: a is joined twice.
C21_FragmentResentLater ==
    /\ stdout_lines = <<JsonLine(OutputTextEvent(<<"a">>)),
                        JsonLine(TextEvent("agent_message", <<"t", NL, "u">>)),
                        JsonLine(OutputTextEvent(<<"a">>))>>
    /\ accumulator.joined_fragments
          = <<"a", NL, NL, US, "t", NL, US, "u", NL, NL, "a">>

----------------------------------------------------------------------------
\* Properties of the shared stream state under the pushes of one execution.

\* The id of the execution of the detailed call.
ExecId == 1

\* The shared stream state after the texts were pushed in order with update.
RECURSIVE StreamAfterPushes(_, _, _)
StreamAfterPushes(stream, prompt_id, texts) ==
    IF texts = <<>> THEN stream
    ELSE StreamAfterPushes(StreamUpdate(stream, prompt_id, Head(texts)), prompt_id,
                           Tail(texts))

\* The shared stream state after start(ExecId) and the first n pushes.
SharedAfter(n) ==
    StreamAfterPushes(StreamStart([prompt_id |-> None, text |-> <<>>], ExecId), ExecId,
                      SubSeq(pushed, 1, n))

\* C22: with the active id, update returns true, the stored text is then the
\* text passed, whether it extends the stored text or not, and the active id
\* stays.
C22_UpdateStoresText ==
    /\ \A i \in 1..Len(pushed) :
          /\ StreamUpdateAccepts(SharedAfter(i - 1), ExecId)
          /\ SharedAfter(i).text = pushed[i]
          /\ SharedAfter(i).prompt_id = ExecId
          /\ StartsWith(pushed[i], SharedAfter(i - 1).text) =>
                SharedAfter(i).text
                    = SharedAfter(i - 1).text
                        \o Suffix(pushed[i], Len(SharedAfter(i - 1).text))
    /\ \A i, j \in 1..Len(pushed) :
          StreamUpdate([prompt_id |-> ExecId, text |-> pushed[i]], ExecId, pushed[j])
              = [prompt_id |-> ExecId, text |-> pushed[j]]

\* A first text, a text that does not extend it, a text that extends that one.
C22_Witness ==
    /\ pushed = <<<<"a">>, <<"b">>, <<"b", "a">>>>
    /\ SharedAfter(3).text = <<"b", "a">>
    /\ ~StartsWith(pushed[2], pushed[1])
    /\ StartsWith(pushed[3], pushed[2])

----------------------------------------------------------------------------
\* Properties of start and clear of the shared stream state.

\* The UI thread takes the step of its handler that follows position at.
UiLeaves(at) == uiPc = at /\ uiPc' # at

\* The state PromptStreamState::default() and a matching clear leave.
StreamIdle == [prompt_id |-> None, text |-> <<>>]

\* C23: start(id) leaves the active id id and the empty text; clear(id) resets
\* the state when id is the active id and leaves it as it is otherwise.
C23_StartAndClear ==
    /\ [](\A id \in PromptIds :
            /\ StreamStart(shared_stream, id) = [prompt_id |-> id, text |-> <<>>]
            /\ StreamClear(shared_stream, id)
                  = IF shared_stream.prompt_id = id THEN StreamIdle ELSE shared_stream)
    /\ [][UiLeaves("submit_start")
            => shared_stream' = [prompt_id |-> uiArg, text |-> <<>>]]_vars
    /\ [][(UiLeaves("cancel_clear") \/ UiLeaves("prompt_clear"))
            => shared_stream' = IF shared_stream.prompt_id = uiArg THEN StreamIdle
                                ELSE shared_stream]_vars

\* Execution 2 is the active one and has text, execution 1 was cancelled
\* before: clear(2) is about to reset the state, and clear(1) on it changes
\* nothing.
C23_Witness ==
    /\ uiPc \in {"cancel_clear", "prompt_clear"} /\ uiArg = 2
    /\ shared_stream.prompt_id = 2 /\ shared_stream.text # <<>>
    /\ 1 \in cancelled
    /\ StreamClear(shared_stream, 1) = shared_stream

\* The handlers call clear only with the id that is active in the stream
\* state: they run on the one UI thread, which made that id active.
C23_ClearCalledWithActiveId ==
    uiPc \in {"cancel_clear", "prompt_clear"} => shared_stream.prompt_id = uiArg

----------------------------------------------------------------------------
\* The selection of into_response (prompt/buffers.rs, lines 167-204).

BoldText == <<"*", "*", "a", "*", "*">>

\* The accumulator now, and after one more delta of each text.
NextAccumulators == {accumulator} \cup {push_delta(accumulator, X) : X \in PushTexts}

\* The delta stream after the reasoning boundary.
DeltaTail(self) == Suffix(self.deltas, self.content_start)

\* Every reasoning line behind the tag and ended by a line break, then one
\* more line break: the tagged lines and a blank line.
ReasoningHead(self) == TagReasoningLines(SplitInclusive(self.reasoning)) \o <<NL>>

\* C24: into_response returns, with no reasoning, the joined fragments if there
\* are any and else the delta stream with closed bold spans scrubbed; with
\* reasoning, the tagged reasoning lines, a blank line, and then the joined
\* fragments if there are any and else the delta stream after the reasoning
\* boundary, with closed bold spans scrubbed as well.
C24_Selection ==
    /\ \A b \in NextAccumulators :
          into_response(b) =
              IF b.reasoning = <<>>
              THEN IF b.joined_fragments # <<>> THEN b.joined_fragments
                   ELSE strip_bold_blocks(b.deltas)
              ELSE ReasoningHead(b)
                   \o IF b.joined_fragments # <<>> THEN b.joined_fragments
                      ELSE strip_bold_blocks(DeltaTail(b))
    /\ (execPc = "returned" /\ outcome.ok) => outcome.text = into_response(accumulator)

\* C24 as worded: with reasoning and no fragments the result ends with the
\* delta stream after the reasoning boundary as it is.
C24_TailAsIs ==
    \A b \in NextAccumulators :
        (b.reasoning # <<>> /\ b.joined_fragments = <<>>)
            => into_response(b) = ReasoningHead(b) \o DeltaTail(b)

\* Reasoning was recorded, no fragment, and the next delta carries a bold span:
\* the tail after the boundary has a span to scrub.
C24_Witness ==
    /\ execPc = "read"
    /\ accumulator.reasoning # <<>> /\ accumulator.joined_fragments = <<>>
    /\ LET b == push_delta(accumulator, BoldText)
       IN  /\ FindBold(DeltaTail(b)) >= 0
           /\ into_response(b) = ReasoningHead(b) \o Ellipsis \o <<NL, NL>>

\* A result was returned from a buffer with reasoning and a delta tail.
C24_WitnessReturned ==
    /\ execPc = "returned" /\ outcome.ok
    /\ accumulator.reasoning # <<>> /\ accumulator.joined_fragments = <<>>
    /\ DeltaTail(accumulator) # <<>>

----------------------------------------------------------------------------
\* A failed spawn (prompt/execution.rs, lines 67-72; app/events.rs, lines 61-82).

\* prompt_codex of w returned without a child: its spawn failed.
SpawnFailed(w) == child[w] = "none" /\ pc[w] \in {"returned", "done"}

\* The worker thread of w takes a step.
WorkerMoves(w) == pc'[w] # pc[w]

\* C25: a failed spawn makes prompt_codex return the error at once: the step
\* goes from the spawn to the return, with no second spawn, no running-prompt
\* record, no update of the shared stream state and no wake; the worker thread
\* then sends that failure as the one Prompt event of the execution.
C25_SpawnFailureReturnsAtOnce ==
    /\ [](\A w \in PromptIds : SpawnFailed(w) =>
              /\ running_prompt.id # w /\ w \notin cancelled /\ removals[w] = 0
              /\ response[w] = <<>> /\ updated[w] = "unset"
              /\ pc[w] = "returned" => (result[w] = "err" /\ resultsSent[w] = 0)
              /\ pc[w] = "done" => resultsSent[w] = 1)
    /\ [][\A w \in PromptIds :
             (pc[w] = "spawn" /\ WorkerMoves(w) /\ child'[w] = "none") =>
                 /\ pc'[w] = "returned" /\ result'[w] = "err"
                 /\ UNCHANGED sharedVars]_vars
    /\ [][\A w \in PromptIds :
             (SpawnFailed(w) /\ WorkerMoves(w)) =>
                 /\ pc[w] = "returned" /\ pc'[w] = "done"
                 /\ chan' = Append(chan, PromptEvent(w, FALSE, <<>>, 0))
                 /\ UNCHANGED <<running_prompt, shared_stream,
                                stream_notification_pending>>]_vars

\* The spawn of execution 1 failed and its one result was sent.
C25_Witness ==
    /\ SpawnFailed(1) /\ pc[1] = "done" /\ resultsSent[1] = 1

----------------------------------------------------------------------------
\* The command line of the agent tool (prompt/codex.rs, lines 12-33, 87-95).

\* The program and the leading arguments each launch strategy starts with.
LauncherProgram(chosen) ==
    IF chosen.kind = "Node" THEN chosen.node
    ELSE IF chosen.kind = "Cmd" THEN "cmd.exe" ELSE "codex"
LauncherPrefix(chosen) ==
    IF chosen.kind = "Node" THEN <<chosen.script>>
    ELSE IF chosen.kind = "Cmd" THEN <<"/C", chosen.codex_cmd>> ELSE <<>>

\* The arguments of cmd after its first n.
ArgsAfter(cmd, n) == SubSeq(cmd.args, n + 1, Len(cmd.args))

\* C26: behind the program and the prefix of its launch strategy, the command
\* carries "exec", then "resume" and the session id exactly if a session id was
\* given, then "--json", then the prompt as the last argument; for each of the
\* three strategies.
C26_ArgumentOrder ==
    \A t \in Callers : launchPc[t] = "done" =>
        LET prefix == LauncherPrefix(launcher[t])
            rest == ArgsAfter(command[t], Len(prefix))
        IN  /\ launcher[t].kind \in {"Node", "Cmd", "Direct"}
            /\ command[t].program = LauncherProgram(launcher[t])
            /\ SubSeq(command[t].args, 1, Len(prefix)) = prefix
            /\ rest = IF call[t].session_id.some
                      THEN <<"exec", "resume", call[t].session_id.v, "--json", call[t].prompt>>
                      ELSE <<"exec", "--json", call[t].prompt>>

\* One command was built through the wrapper script with a session id, another
\* one without.
C26_Witness ==
    /\ launchPc[1] = "done" /\ launchPc[2] = "done"
    /\ launcher[1].kind = "Cmd"
    /\ call[1].session_id.some /\ ~call[2].session_id.some

\* A command was built with the interpreter and the entry script.
C26_WitnessNode ==
    \E t \in Callers : launchPc[t] = "done" /\ launcher[t].kind = "Node"
                       /\ call[t].session_id.some

\* A command was built for the binary itself.
C26_WitnessDirect ==
    \E t \in Callers : launchPc[t] = "done" /\ launcher[t].kind = "Direct"
                       /\ call[t].session_id.some

----------------------------------------------------------------------------
\* The decision of the launch strategy (prompt/codex.rs, lines 74-85).

\* The strategy the closure would choose in the environment as it is now.
DecisionNow ==
    LET node == node_path(env_vars, files)
        script == codex_script_path(env_vars, files)
        codex_cmd == codex_cmd_path(env_vars, files)
    IN  IF node.some /\ script.some THEN NodeLauncher(node.v, script.v)
        ELSE IF codex_cmd.some THEN CmdLauncher(codex_cmd.v)
        ELSE DirectLauncher

\* The strategy a built command belongs to.
CommandKind(cmd) ==
    IF cmd.program = "cmd.exe" THEN "Cmd"
    ELSE IF cmd.program = "codex" THEN "Direct" ELSE "Node"

\* C27: the closure of codex_launcher is started at most once; the caller that
\* runs it chooses the interpreter with the entry script if it found both, else
\* the wrapper script if it finds it, else the binary itself; once the decision
\* is stored it never changes, and every call builds its command from it,
\* whatever the environment has become.
C27_DecidedOnce ==
    /\ [](initRuns <= 1)
    /\ [][CODEX_LAUNCHER.state = "set" => CODEX_LAUNCHER' = CODEX_LAUNCHER]_vars
    /\ [][(CODEX_LAUNCHER.state # "set" /\ CODEX_LAUNCHER'.state = "set") =>
             LET t == CODEX_LAUNCHER.by
                 found == seen'[t]
             IN  /\ CODEX_LAUNCHER.state = "running" /\ CODEX_LAUNCHER'.by = t
                 /\ CODEX_LAUNCHER'.value =
                       IF found.node.some /\ found.script.some
                       THEN NodeLauncher(found.node.v, found.script.v)
                       ELSE IF "APPDATA/npm/codex.cmd" \in files /\ "APPDATA" \in env_vars
                       THEN CmdLauncher("APPDATA/npm/codex.cmd")
                       ELSE DirectLauncher]_vars
    /\ [][\A t \in Callers : (launchPc[t] = "build" /\ launchPc'[t] = "done") =>
             /\ CODEX_LAUNCHER.state = "set"
             /\ launcher[t] = CODEX_LAUNCHER.value
             /\ CommandKind(command'[t]) = CODEX_LAUNCHER.value.kind
             /\ command'[t].program = LauncherProgram(CODEX_LAUNCHER.value)]_vars

\* Both callers have built their command from the one decision, and the
\* environment is now one in which the closure would decide otherwise.
C27_Witness ==
    /\ launchPc[1] = "done" /\ launchPc[2] = "done"
    /\ initRuns = 1
    /\ CommandKind(command[1]) = CommandKind(command[2])
    /\ DecisionNow.kind # CODEX_LAUNCHER.value.kind

\* A caller waits in get_or_init while the other one runs the closure.
C27_WitnessConcurrent ==
    /\ launchPc[1] = "get" /\ launchPc[2] \in {"node", "script", "cmd"}
    /\ CODEX_LAUNCHER.state = "running"

----------------------------------------------------------------------------
\* The discipline of the two mutexes.

Held(th) == {m \in Mutexes : mutex[m] = th}
WaitsFor(th, m) == Running(th) /\ Current(th).op = "lock" /\ Current(th).arg = m

\* C28: a thread that is at a blocking operation (pipe read, process wait,
\* thread join, channel send, process kill) holds no mutex; no thread holds
\* running_prompt and shared_stream together; and a thread that waits for a
\* mutex waits for a thread that is neither blocked nor waiting itself, so the
\* worker, the UI thread and the kill thread never deadlock on the mutexes.
C28_LockDiscipline ==
    /\ \A th \in Threads : (Running(th) /\ Current(th).op = "block") => Held(th) = {}
    /\ \A th \in Threads : Cardinality(Held(th)) <= 1
    /\ \A th \in Threads : ~Running(th) => Held(th) = {}
    /\ \A th \in Threads, m \in Mutexes :
          (WaitsFor(th, m) /\ mutex[m] # Free) =>
              /\ mutex[m] # th
              /\ Running(mutex[m])
              /\ Current(mutex[m]).op \in {"work", "unlock"}

\* The UI thread waits for shared_stream, which worker 1 holds, while worker 2
\* is at its pipe read and a kill thread is at its taskkill.
C28_Witness ==
    /\ WaitsFor(UiThread, "shared_stream")
    /\ mutex["shared_stream"] = <<"worker", 1>>
    /\ Running(<<"worker", 2>>) /\ Current(<<"worker", 2>>).op = "block"
    /\ Running(<<"kill", 1>>)

\* Both mutexes are held at once, by two threads.
C28_WitnessBothHeld ==
    /\ mutex["running_prompt"] # Free /\ mutex["shared_stream"] # Free

----------------------------------------------------------------------------
\* The shared text follows the visible text (prompt/execution.rs, lines 143-144
\* and 172-190).

\* The text of the shared stream state after all pushes so far.
SharedText == SharedAfter(Len(pushed)).text

\* The measures the push condition compares stay as they are in the step.
SameMeasures ==
    /\ visible_len(accumulator') = visible_len(accumulator)
    /\ has_deltas(accumulator') = has_deltas(accumulator)

\* C29: with the execution's id active, the shared text is the visible text of
\* the accumulator after every line; an event that changes the visible text
\* pushes the new text; an event pushes only if it changed the visible length
\* or made the delta stream non-empty, and then it pushes the visible text.
C29_SharedFollowsVisible ==
    /\ [](SharedText = visible_text(accumulator))
    /\ [][visible_text(accumulator') # visible_text(accumulator)
            => pushed' = Append(pushed, visible_text(accumulator'))]_vars
    /\ [][pushed' # pushed
            => /\ pushed' = Append(pushed, visible_text(accumulator'))
               /\ ~SameMeasures]_vars
    /\ [][SameMeasures => pushed' = pushed]_vars

\* C29 as worded: an event that leaves the visible text as it is pushes nothing.
C29_NoPushWithoutChange ==
    [][visible_text(accumulator') = visible_text(accumulator) => pushed' = pushed]_vars

\* The first delta repeated the text of the fragment before it: the same text
\* was pushed twice.
C29_Witness ==
    /\ Len(pushed) = 2 /\ pushed[1] = pushed[2]
    /\ has_deltas(accumulator)
    /\ SharedText = visible_text(accumulator)

\* Three events were processed, one of which pushed nothing.
C29_WitnessNoPush ==
    /\ execPc = "read" /\ Len(stdout_lines) = 3 /\ Len(pushed) = 2
    /\ pushed[1] # pushed[2]
    /\ \A i \in 1..3 : TrimLine(stdout_lines[i]).kind \notin {"blank", "invalid"}

----------------------------------------------------------------------------
\* The order of the phases of one execution (prompt/execution.rs, lines 67-221).

\* The phase a position of the worker belongs to: 0 not started, 1 Spawning,
\* 2 Streaming, 3 Draining, 4 Completed or Failed.
Phase(at) ==
    CASE at = "unborn" -> 0
      [] at \in {"spawn", "publish"} -> 1
      [] at \in {"pipes", "read", "update", "swap", "send"} -> 2
      [] at \in {"wait", "join"} -> 3
      [] OTHER -> 4

\* The worker of w goes to position to in this step.
Enters(w, to) == pc[w] # to /\ pc'[w] = to

\* C30: the phases of an execution follow each other only in the order
\* Spawning, Streaming, Draining, Completed or Failed; the wait starts only at
\* the end of stream of stdout; the stderr reader is joined only after wait
\* gave the exit status; the result chosen from the exit status, the success
\* and the failure of a non-zero exit, is produced only in the step of that
\* join; the record is published after a successful spawn and before the first
\* line is read. An error return ends the execution as failed from the phase
\* it is in.
C30_PhaseOrder ==
    /\ [][\A w \in PromptIds : Phase(pc'[w]) >= Phase(pc[w])]_vars
    /\ [][\A w \in PromptIds : Enters(w, "wait") => pc[w] = "read"]_vars
    /\ [][\A w \in PromptIds : Enters(w, "join") =>
             /\ pc[w] = "wait"
             /\ status'[w] \in {"success", "failure"} /\ child'[w] = "reaped"]_vars
    /\ [][\A w \in PromptIds : (result'[w] = "ok" /\ result[w] # "ok") =>
             /\ pc[w] = "join" /\ status[w] = "success"
             /\ stderrReader'[w] = "joined"]_vars
    /\ [][\A w \in PromptIds : (pc[w] = "join" /\ pc'[w] # "join") =>
             /\ result[w] = "none" /\ result'[w] \in {"ok", "err"}
             /\ status[w] = "failure" => result'[w] = "err"]_vars
    /\ [][\A w \in PromptIds : Enters(w, "publish") =>
             pc[w] = "spawn" /\ child'[w] = "running"]_vars
    /\ [][\A w \in PromptIds : Enters(w, "pipes") =>
             pc[w] = "publish" /\ running_prompt' = [id |-> w, pid |-> w]]_vars
    /\ [][\A w \in PromptIds : (Enters(w, "read") /\ pc[w] \notin {"update", "swap", "send"})
             => pc[w] = "pipes"]_vars

\* C30 as worded: a success or failure result is sent only for an execution
\* whose stderr reader was joined after its exit status was obtained.
C30_ResultOnlyAfterJoin ==
    [][\A w \in PromptIds :
          (Enters(w, "done") /\ result[w] \in {"ok", "err"}) =>
              stderrReader[w] = "joined" /\ child[w] = "reaped"]_vars

\* Execution 1 went through all phases and returned success.
C30_Witness ==
    /\ pc[1] = "returned" /\ result[1] = "ok"
    /\ child[1] = "reaped" /\ stderrReader[1] = "joined"
    /\ response[1] # <<>>

\* Execution 1 failed while it was streaming: its failure was produced without
\* the wait and the join of the draining phase.
C30_WitnessEarlyFailure ==
    /\ pc[1] = "drop_running" /\ result[1] = "err"
    /\ stderrReader[1] = "running" /\ status[1] = "none"

----------------------------------------------------------------------------
\* Agent fragments (prompt/buffers.rs, lines 39-54 and 319-339).

\* Every line of the text starts with the agent tag.
RECURSIVE EveryLineTagged(_)
EveryLineTagged(lines) ==
    lines = <<>> \/ (Head(Head(lines)) = US /\ EveryLineTagged(Tail(lines)))

\* The lines without their first char, joined again.
RECURSIVE Untagged(_)
Untagged(lines) ==
    IF lines = <<>> THEN <<>> ELSE Tail(Head(lines)) \o Untagged(Tail(lines))

\* C31: one, two or three consecutive push_agent_fragment(X) leave the same
\* buffer; a fragment that was appended has the agent tag before every line
\* and is X (bold spans collapsed) without the tags; the comparison accepts
\* the tagged form of X, of one line or of several, as equal to X.
C31_AgentFragmentIdempotent ==
    execPc = "read" =>
        \A X \in PushTexts :
            LET once == push_agent_fragment(accumulator, X)
                twice == push_agent_fragment(once, X)
                thrice == push_agent_fragment(twice, X)
                lines == SplitInclusive(last_fragment(once))
            IN  /\ twice = once /\ thrice = once
                /\ twice.joined_fragments = once.joined_fragments
                /\ once # accumulator =>
                      /\ EveryLineTagged(lines)
                      /\ Untagged(lines) = strip_bold_blocks(X)
                      /\ Len(lines) = Len(SplitInclusive(strip_bold_blocks(X)))
                      /\ agent_fragment_matches(last_fragment(once), strip_bold_blocks(X))
                      /\ once.joined_fragments
                            = accumulator.joined_fragments
                              \o FragmentBreak(accumulator.joined_fragments)
                              \o last_fragment(once)

\* The agent message of two lines arrived twice and is there once, tagged.
C31_Witness ==
    /\ stdout_lines = <<JsonLine(TextEvent("agent_message", <<"t", NL, "u">>)),
                        JsonLine(TextEvent("agent_message", <<"t", NL, "u">>))>>
    /\ accumulator.joined_fragments = <<US, "t", NL, US, "u">>
    /\ pushed = <<<<US, "t", NL, US, "u">>>>

----------------------------------------------------------------------------
\* Full reasoning texts (prompt/buffers.rs, lines 82-109).

\* What push_reasoning keeps of the text: trimmed, bold markers removed.
ReasoningContent(text) == Trim(strip_bold_markers(Trim(text)))

\* The part of the delta stream a push added, from the start of its first line.
AddedLines(before, after) ==
    LET added == Suffix(after.deltas, Len(before.deltas))
    IN  SplitInclusive(IF before.deltas # <<>> /\ ~EndsWith(before.deltas, <<NL>>)
                       THEN Tail(added) ELSE added)

\* Every line starts with the reasoning tag.
RECURSIVE EveryLineReasoning(_)
EveryLineReasoning(lines) ==
    lines = <<>> \/ (Head(Head(lines)) = RS /\ EveryLineReasoning(Tail(lines)))

\* C32: a second push_reasoning(T) changes neither the reasoning nor the delta
\* stream; a T that was appended is in the reasoning with the ellipsis marker
\* behind it, and every line it added to the delta stream carries the
\* reasoning tag.
C32_ReasoningDedupAndMirror ==
    execPc = "read" =>
        \A T \in PushTexts :
            LET once == push_reasoning(accumulator, T)
                twice == push_reasoning(once, T)
            IN  /\ twice.reasoning = once.reasoning /\ twice.deltas = once.deltas
                /\ once # accumulator =>
                      /\ StartsWith(once.reasoning, accumulator.reasoning)
                      /\ EndsWith(once.reasoning, ReasoningContent(T) \o Ellipsis)
                      /\ EveryLineReasoning(AddedLines(accumulator, once))

\* What of C32 holds: the repeat changes nothing, the appended text has the
\* ellipsis marker, and the first line added to the delta stream has the tag.
C32_DedupAndFirstLineTagged ==
    execPc = "read" =>
        \A T \in PushTexts :
            LET once == push_reasoning(accumulator, T)
                twice == push_reasoning(once, T)
            IN  /\ twice = once
                /\ once # accumulator =>
                      /\ StartsWith(once.reasoning, accumulator.reasoning)
                      /\ EndsWith(once.reasoning, ReasoningContent(T) \o Ellipsis)
                      /\ Head(Head(AddedLines(accumulator, once))) = RS
                      /\ once.content_start = Len(once.deltas)

\* A reasoning text of two lines is about to be pushed: its second line goes
\* into the delta stream without the tag.
C32_SecondLineUntagged ==
    /\ execPc = "read"
    /\ LET once == push_reasoning(accumulator, <<"t", NL, "u">>)
       IN  /\ once # accumulator
           /\ ~EveryLineReasoning(AddedLines(accumulator, once))

----------------------------------------------------------------------------
\* The first delta behind reasoning (prompt/buffers.rs, lines 66-78).

\* Reasoning texts pushed ahead of a delta.
ReasoningTexts == {<<"a">>, <<"t", NL, "u">>}

\* The buffer after an accepted reasoning push of either kind, then delta X,
\* then delta Y: the first accepted delta stands behind a blank line and is
\* where the content starts, the next accepted one follows it directly.
DeltasAfterReasoning(self, X, Y) ==
    LET first == push_delta(self, X)
        second == push_delta(first, Y)
    IN  /\ first # self =>
              /\ first.deltas = self.deltas
                                \o (IF EndsWith(self.deltas, <<NL>>) THEN <<NL>>
                                    ELSE <<NL, NL>>)
                                \o X
              /\ EndsWith(SubSeq(first.deltas, 1, first.content_start), <<NL, NL>>)
              /\ Suffix(first.deltas, first.content_start) = X
              /\ first.reasoning = self.reasoning
        /\ (first # self /\ second # first) =>
              /\ second.deltas = first.deltas \o Y
              /\ second.content_start = first.content_start
              /\ Suffix(second.deltas, second.content_start) = X \o Y

\* C33: the first delta accepted behind reasoning of either kind stands behind
\* a blank line, the deltas accepted after it are appended with nothing
\* between, and the delta stream behind the content boundary never holds the
\* reasoning tag.
C33_SeparatorOnce ==
    /\ accumulator.content_start <= Len(accumulator.deltas)
    /\ \A i \in (accumulator.content_start + 1)..Len(accumulator.deltas) :
           accumulator.deltas[i] # RS
    /\ execPc = "read" =>
           \A R \in ReasoningTexts, X \in PushTexts, Y \in PushTexts :
               /\ push_reasoning(accumulator, R) # accumulator =>
                      DeltasAfterReasoning(push_reasoning(accumulator, R), X, Y)
               /\ push_reasoning_delta(accumulator, R) # accumulator =>
                      DeltasAfterReasoning(push_reasoning_delta(accumulator, R), X, Y)

\* Reasoning, then the delta "a" behind a blank line, then the delta "b"
\* directly behind it.
C33_Witness ==
    /\ accumulator.reasoning = <<"t">> \o Ellipsis
    /\ accumulator.deltas = <<RS, "t">> \o Ellipsis \o <<NL, NL, "a", "b">>
    /\ accumulator.content_start = 7

----------------------------------------------------------------------------
\* The visible text (prompt/buffers.rs, lines 130-165 and 206-215).

\* The buffers one push of any kind makes of the buffer.
AfterOnePush(self) ==
    {self}
    \cup {push_fragment(self, X) : X \in PushTexts}
    \cup {push_agent_fragment(self, X) : X \in PushTexts}
    \cup {push_delta(self, X) : X \in PushTexts}
    \cup {push_reasoning(self, X) : X \in PushTexts}
    \cup {push_reasoning_delta(self, X) : X \in PushTexts}

\* C37: in the buffer of every reachable state, and after one more push of
\* any kind, recorded reasoning means a non-empty delta stream, and
\* visible_text is then the delta stream, returned without rebuilding the text
\* put together from the reasoning and the fragments.
C37_ReasoningImpliesDeltas ==
    \A acc \in (IF execPc = "read" THEN AfterOnePush(accumulator) ELSE {accumulator}) :
        acc.reasoning # <<>> =>
            /\ acc.deltas # <<>>
            /\ has_deltas(acc)
            /\ visible_text(acc) = acc.deltas
            /\ AfterVisibleText(acc) = acc

\* Reasoning and a fragment were recorded and no delta arrived: the visible
\* text is the mirrored reasoning line alone.
C37_Witness ==
    /\ accumulator.reasoning = <<"t">> \o Ellipsis
    /\ accumulator.joined_fragments = <<"a">>
    /\ accumulator.deltas = <<RS, "t">> \o Ellipsis \o <<NL>>
    /\ visible_text(accumulator) = accumulator.deltas

\* C38: in the buffer of every reachable state, and after one more push of
\* any kind, visible_len is the length of what visible_text returns, and
\* content_start lies within the delta stream, so that the slice into_response
\* takes from content_start is in range.
C38_VisibleLenIsLength ==
    \A acc \in (IF execPc = "read" THEN AfterOnePush(accumulator) ELSE {accumulator}) :
        /\ visible_len(acc) = Len(visible_text(acc))
        /\ acc.content_start \in 0..Len(acc.deltas)
        /\ reasoning_display_len(acc) = Len(rebuild_display(acc).display)
                                         - 1 - Len(acc.joined_fragments)

\* Reasoning of two lines, deltas behind it and a fragment: the three
\* branches of visible_len would give three lengths.
C38_Witness ==
    /\ accumulator.reasoning # <<>>
    /\ accumulator.joined_fragments # <<>>
    /\ accumulator.content_start < Len(accumulator.deltas)
    /\ accumulator.content_start > 0
    /\ visible_len(accumulator) = Len(accumulator.deltas)
    /\ Len(accumulator.deltas) # Len(accumulator.joined_fragments)
    /\ Len(accumulator.deltas)
           # reasoning_display_len(accumulator) + 1 + Len(accumulator.joined_fragments)

----------------------------------------------------------------------------
\* Late events of an execution that is no longer the active one
\* (app/events.rs, lines 123-152).

\* The UI thread takes the event at the head of the channel.
Handles(kind) ==
    /\ uiPc = "idle"
    /\ chan # <<>>
    /\ Head(chan).type = kind
    /\ chan' = Tail(chan)

\* C34: the handler of Prompt(id, _) for an id whose record cancel took
\* changes neither the output, nor the session id, nor busy, locked or the
\* active id, whether or not a newer prompt is active, and is finished in that
\* step; the handler of PromptStream(id) for an id that is not the active one
\* copies nothing into the output; an id whose record cancel took is never
\* the active id again.
C34_LateEventsIgnored ==
    /\ [](active_prompt_id = None \/ active_prompt_id \notin cancelled)
    /\ [][ /\ (Handles("Prompt") /\ Head(chan).id \in cancelled) =>
                 /\ UNCHANGED <<output, output_base, session_id, busy, locked,
                                active_prompt_id, next_prompt_id, shared_stream,
                                stream_notification_pending>>
                 /\ uiPc' = "idle"
           /\ (Handles("PromptStream") /\ Head(chan).id # active_prompt_id) =>
                 /\ UNCHANGED <<output, output_base, session_id, busy, locked,
                                active_prompt_id, shared_stream>>
                 /\ uiPc' = "idle"
         ]_vars

\* Execution 1 was cancelled, prompt 2 was submitted and is streaming, and the
\* result of execution 1 was sent and has been taken from the channel: the app
\* is still busy with prompt 2 and shows its text.
C34_Witness ==
    /\ 1 \in cancelled
    /\ resultsSent[1] = 1
    /\ \A i \in 1..Len(chan) : chan[i].id # 1
    /\ uiPc = "idle"
    /\ active_prompt_id = 2 /\ busy /\ locked
    /\ shared_stream.prompt_id = 2
    /\ output # <<>> /\ output = shared_stream.text

----------------------------------------------------------------------------
\* The flags of the app between two handlers, and the prompt ids
\* (app/events.rs, lines 14-33, 93-101, 149-184; app/mod.rs, lines 122-146).

\* The prompt ids for which submit started a worker thread.
Started == {w \in PromptIds : pc[w] # "unborn"}

\* C35: whenever the UI thread is between two handlers, busy, locked and
\* "active_prompt_id is set" are all true or all false; every id in use is
\* below next_prompt_id, and submit gives the new prompt the id next_prompt_id,
\* which no execution had, and raises next_prompt_id by one; nothing else
\* changes next_prompt_id.
C35_FlagsAgreeAndIdsFresh ==
    /\ [](uiPc = "idle" => /\ busy = locked
                           /\ busy = (active_prompt_id # None))
    /\ [](/\ \A w \in Started : w < next_prompt_id
          /\ active_prompt_id < next_prompt_id
          /\ \A i \in 1..Len(chan) : chan[i].id < next_prompt_id)
    /\ [][ /\ next_prompt_id' >= next_prompt_id
           /\ next_prompt_id' # next_prompt_id =>
                 /\ next_prompt_id' = next_prompt_id + 1
                 /\ active_prompt_id' = next_prompt_id
                 /\ next_prompt_id \notin Started
                 /\ busy' /\ locked'
           /\ (uiPc = "submit_start" /\ uiPc' = "idle") =>
                 /\ Started' = Started \cup {active_prompt_id}
                 /\ active_prompt_id \notin Started
           /\ (uiPc # "submit_start") => Started' = Started
         ]_vars

\* The second prompt is running after the first was handled to its end: the
\* three flags agree and the two executions have the ids 1 and 2.
C35_Witness ==
    /\ uiPc = "idle"
    /\ busy /\ locked /\ active_prompt_id = 2
    /\ next_prompt_id = 3
    /\ Started = {1, 2}
    /\ pc[1] = "done" /\ pc[2] \notin {"unborn", "done"}
    /\ 1 \notin cancelled

\* After a cancel and a Clear, all three are false.
C35_WitnessIdle ==
    /\ uiPc = "idle"
    /\ ~busy /\ ~locked /\ active_prompt_id = None
    /\ 1 \in cancelled /\ output_base = 0 /\ next_prompt_id = 2

----------------------------------------------------------------------------
\* The copy of the shared text into the output (app/events.rs, lines 125-148).

\* Texts the output holds before output_base: nothing, or an earlier prompt
\* with its reply, the reply being any text an execution can show.
EarlierOutputs == {<<>>, <<0, 1>>, <<0, -1>>, <<0, 1, 0, 0>>}

\* C36: the step that handles a stream wake for the active execution while
\* the shared stream state carries its id leaves the shared text as the output
\* behind output_base, by appending when the shared text extends what is
\* shown and by replacing otherwise, and leaves output_base and everything
\* before it as they were; on the whole output the code's append and truncate
\* give the same.
C36_CopyEqualsShared ==
    [][(uiPc = "stream_copy" /\ uiPc' = "idle" /\ shared_stream.prompt_id = uiArg) =>
          /\ uiArg = active_prompt_id
          /\ output' = shared_stream.text
          /\ output_base' = output_base
          /\ shared_stream' = shared_stream
          /\ StartsWith(shared_stream.text, output) =>
                 output' = output \o Suffix(shared_stream.text, Len(output))
          /\ \A earlier \in EarlierOutputs :
                 LET whole == CopyStreamWhole(earlier \o output, Len(earlier),
                                              shared_stream, uiArg)
                 IN  /\ SubSeq(whole, 1, Len(earlier)) = earlier
                     /\ Suffix(whole, Len(earlier)) = shared_stream.text
                     /\ Suffix(whole, Len(earlier)) = output'
      ]_vars

\* The copy is about to replace a shown text that the shared text does not
\* extend.
C36_Witness ==
    /\ uiPc = "stream_copy"
    /\ shared_stream.prompt_id = uiArg
    /\ output # <<>>
    /\ shared_stream.text # <<>>
    /\ ~StartsWith(shared_stream.text, output)

\* The copy is about to append to a shown text.
C36_WitnessAppend ==
    /\ uiPc = "stream_copy"
    /\ shared_stream.prompt_id = uiArg
    /\ StartsWith(shared_stream.text, output)
    /\ shared_stream.text # output
====
